---- MODULE Spec2Model ----
(***************************************************************************)
(* Model of the docket ingestion pipeline (src/ingest.py, DocketIngester). *)
(*                                                                         *)
(* Text is modelled as a tuple of one-character strings, so that the       *)
(* normalisers, parsers and the error classifier are computed character by *)
(* character as the Python code computes them.  A JSON field value is a    *)
(* record [t, v]: t is "absent" (key not in the object), "null", "num" (a  *)
(* truthy non-string JSON value such as 5) or "str" with the text in v.    *)
(* The relational store is a record of tables (sets of rows; case_parties, *)
(* whose rows carry no id, is the sequence of its rows); `db` is the state *)
(* seen by the open session and `committed` the last committed one.        *)
(* Field `failed` of `db` says that a statement of the open transaction    *)
(* raised: until the transaction ends every statement raises, and          *)
(* conn.commit() then ends it as a rollback, without an exception.         *)
(***************************************************************************)
EXTENDS Integers, Sequences, FiniteSets, TLC

\* ------------------------------------------------------------------ text

WS == {" ", "\t", "\n"}

Digits == <<"0","1","2","3","4","5","6","7","8","9">>

LowerLetters == <<"a","b","c","d","e","f","g","h","i","j","k","l","m","n","o","p","q","r","s","t","u","v","w","x","y","z">>

UpperLetters == <<"A","B","C","D","E","F","G","H","I","J","K","L","M","N","O","P","Q","R","S","T","U","V","W","X","Y","Z">>

IndexIn(c, seq) == IF \E i \in 1..Len(seq) : seq[i] = c
                   THEN CHOOSE i \in 1..Len(seq) : seq[i] = c
                   ELSE 0

\* str.upper() / str.lower() on one character (ASCII)
UpperChar(c) == IF IndexIn(c, LowerLetters) > 0 THEN UpperLetters[IndexIn(c, LowerLetters)] ELSE c

LowerChar(c) == IF IndexIn(c, UpperLetters) > 0 THEN LowerLetters[IndexIn(c, UpperLetters)] ELSE c

UpperStr(s) == [i \in 1..Len(s) |-> UpperChar(s[i])]

LowerStr(s) == [i \in 1..Len(s) |-> LowerChar(s[i])]

RECURSIVE RemoveChars(_, _)
\* re.sub(r'[<bad>]+', '', s)
RemoveChars(s, bad) ==
    IF s = <<>> THEN <<>>
    ELSE (IF Head(s) \in bad THEN <<>> ELSE <<Head(s)>>) \o RemoveChars(Tail(s), bad)

RECURSIVE LStrip(_)
LStrip(s) == IF s # <<>> /\ Head(s) \in WS THEN LStrip(Tail(s)) ELSE s

RECURSIVE RStrip(_)
RStrip(s) == IF s # <<>> /\ s[Len(s)] \in WS THEN RStrip(SubSeq(s, 1, Len(s) - 1)) ELSE s

\* str.strip()
Strip(s) == RStrip(LStrip(s))

RECURSIVE SplitOn(_, _, _)
\* the pieces of s between the characters of seps (empty pieces kept), cur is
\* the piece being read: str.split(',') and re.split(r'[;/]', s)
SplitOn(s, seps, cur) ==
    IF s = <<>> THEN <<cur>>
    ELSE IF Head(s) \in seps THEN <<cur>> \o SplitOn(Tail(s), seps, <<>>)
    ELSE SplitOn(Tail(s), seps, Append(cur, Head(s)))

\* str.split(): the maximal runs of non-whitespace
Words(s) == SelectSeq(SplitOn(s, WS, <<>>), LAMBDA w : w # <<>>)

RECURSIVE JoinWith(_, _)
\* sep.join(parts)
JoinWith(parts, sep) ==
    IF parts = <<>> THEN <<>>
    ELSE IF Len(parts) = 1 THEN parts[1]
    ELSE parts[1] \o sep \o JoinWith(Tail(parts), sep)

\* ' '.join(s.split())
CollapseWs(s) == JoinWith(Words(s), <<" ">>)

StartsWith(s, p) == Len(s) >= Len(p) /\ SubSeq(s, 1, Len(p)) = p

\* `word in text`
Contains(text, word) ==
    \E i \in 0..(Len(text) - Len(word)) : SubSeq(text, i + 1, i + Len(word)) = word

\* number of leading whitespace characters of s from position k+1 on
RECURSIVE WsRun(_, _)
WsRun(s, k) == IF k < Len(s) /\ s[k + 1] \in WS THEN 1 + WsRun(s, k + 1) ELSE 0

\* ------------------------------------------------------------ normalizer

\* DocketIngester.normalize_court_name
normalize_court_name(court) ==
    IF court = <<>> THEN <<>>
    ELSE RemoveChars(UpperStr(court), {"."} \cup WS)

\* length of the match of ^(hon\.?|judge|justice)\s+ with re.IGNORECASE, 0 if none
HonorificMatch(judge) ==
    LET low == LowerStr(judge)
        Try(k) == IF WsRun(low, k) > 0 THEN k + WsRun(low, k) ELSE 0
    IN  IF StartsWith(low, <<"h","o","n",".">>) /\ Try(4) > 0 THEN Try(4)
        ELSE IF StartsWith(low, <<"h","o","n">>) /\ Try(3) > 0 THEN Try(3)
        ELSE IF StartsWith(low, <<"j","u","d","g","e">>) /\ Try(5) > 0 THEN Try(5)
        ELSE IF StartsWith(low, <<"j","u","s","t","i","c","e">>) /\ Try(7) > 0 THEN Try(7)
        ELSE 0

\* DocketIngester.normalize_judge_name
normalize_judge_name(judge) ==
    IF judge = <<>> THEN <<>>
    ELSE LowerStr(CollapseWs(SubSeq(judge, HonorificMatch(judge) + 1, Len(judge))))

\* DocketIngester.normalize_party_name
normalize_party_name(party) ==
    IF party = <<>> THEN <<>>
    ELSE Strip(LowerStr(CollapseWs(party)))

\* ---------------------------------------------------------- date resolver

IsDigit(c) == IndexIn(c, Digits) > 0

AllDigits(s) == \A i \in 1..Len(s) : IsDigit(s[i])

RECURSIVE NumVal(_)
\* int(s) for a string of digits
NumVal(s) == IF s = <<>> THEN 0
             ELSE NumVal(SubSeq(s, 1, Len(s) - 1)) * 10 + (IndexIn(s[Len(s)], Digits) - 1)

IsLeap(y) == (y % 4 = 0 /\ y % 100 # 0) \/ y % 400 = 0

DaysInMonth(y, m) == IF m = 2 THEN (IF IsLeap(y) THEN 29 ELSE 28)
                     ELSE IF m \in {4, 6, 9, 11} THEN 30 ELSE 31

\* datetime.date(y, m, d) does not raise
ValidDate(y, m, d) == y >= 1 /\ m \in 1..12 /\ d >= 1 /\ d <= DaysInMonth(y, m)

\* strptime directives: %Y is \d\d\d\d, %m is 1[0-2]|0[1-9]|[1-9],
\* %d is 3[01]|[12]\d|0[1-9]|[1-9]| [1-9]
MatchY(t) == Len(t) = 4 /\ AllDigits(t)

MatchM(t) == Len(t) \in {1, 2} /\ AllDigits(t) /\ NumVal(t) \in 1..12

MatchD(t) == \/ Len(t) \in {1, 2} /\ AllDigits(t) /\ NumVal(t) \in 1..31
             \/ Len(t) = 2 /\ t[1] = " " /\ IsDigit(t[2]) /\ t[2] # "0"

DayVal(t) == IF t[1] = " " THEN NumVal(Tail(t)) ELSE NumVal(t)

MonthAbbr == << <<"j","a","n">>, <<"f","e","b">>, <<"m","a","r">>, <<"a","p","r">>,
                <<"m","a","y">>, <<"j","u","n">>, <<"j","u","l">>, <<"a","u","g">>,
                <<"s","e","p">>, <<"o","c","t">>, <<"n","o","v">>, <<"d","e","c">> >>

MonthFull == << <<"j","a","n","u","a","r","y">>, <<"f","e","b","r","u","a","r","y">>,
                <<"m","a","r","c","h">>, <<"a","p","r","i","l">>, <<"m","a","y">>,
                <<"j","u","n","e">>, <<"j","u","l","y">>, <<"a","u","g","u","s","t">>,
                <<"s","e","p","t","e","m","b","e","r">>, <<"o","c","t","o","b","e","r">>,
                <<"n","o","v","e","m","b","e","r">>, <<"d","e","c","e","m","b","e","r">> >>

DateOk(y, m, d) == [ok |-> TRUE, y |-> y, m |-> m, d |-> d, msg |-> [k |-> "none", arg |-> <<>>]]

DateFail(kind, s) == [ok |-> FALSE, y |-> 0, m |-> 0, d |-> 0, msg |-> [k |-> kind, arg |-> s]]

NumericParts(s, p, iy, im, id) ==
    IF Len(p) = 3 /\ MatchY(p[iy]) /\ MatchM(p[im]) /\ MatchD(p[id])
       /\ ValidDate(NumVal(p[iy]), NumVal(p[im]), DayVal(p[id]))
    THEN DateOk(NumVal(p[iy]), NumVal(p[im]), DayVal(p[id]))
    ELSE DateFail("strptime", s)

\* datetime.strptime(s, '%Y-%m-%d'), '%m/%d/%Y' or '%m-%d-%Y': the fields at the
\* positions iy, im, id of the pieces between sep
StrptimeNumeric(s, sep, iy, im, id) == NumericParts(s, SplitOn(s, {sep}, <<>>), iy, im, id)

\* the month name, day and year of '<name> <day>' and ' <year>' hold a date
NamedFields(l, w, r, names) ==
    /\ Len(w) = 2 /\ IndexIn(LowerStr(w[1]), names) > 0
    /\ l[1] \notin WS /\ l[Len(l)] \notin WS
    /\ Len(w[2]) \in {1, 2} /\ AllDigits(w[2]) /\ NumVal(w[2]) \in 1..31
    /\ r # <<>> /\ r[1] \in WS /\ MatchY(LStrip(r))
    /\ ValidDate(NumVal(LStrip(r)), IndexIn(LowerStr(w[1]), names), NumVal(w[2]))

NamedParts(s, c, names) ==
    IF Len(c) = 2 /\ c[1] # <<>> /\ NamedFields(c[1], Words(c[1]), c[2], names)
    THEN DateOk(NumVal(LStrip(c[2])), IndexIn(LowerStr(Words(c[1])[1]), names),
                NumVal(Words(c[1])[2]))
    ELSE DateFail("strptime", s)

\* datetime.strptime(s, '%b %d, %Y') and '%B %d, %Y' (names is the month table)
StrptimeNamed(s, names) == NamedParts(s, SplitOn(s, {","}, <<>>), names)

MdyPieces(p) ==
    /\ Len(p) = 3
    /\ Len(p[1]) \in {1, 2} /\ AllDigits(p[1])
    /\ Len(p[2]) \in {1, 2} /\ AllDigits(p[2])
    /\ Len(p[3]) = 4 /\ AllDigits(p[3])

\* the match of ^\s*(\d{1,2})[-/](\d{1,2})[-/](\d{4})\s*$
MdyNumericMatch(s) == MdyPieces(SplitOn(s, {"-", "/"}, <<>>))

\* step 2 read day-first when the month-first reading is no date
MdyNumericDayFirst(s, p) ==
    IF ValidDate(NumVal(p[3]), NumVal(p[1]), NumVal(p[2]))
    THEN DateOk(NumVal(p[3]), NumVal(p[1]), NumVal(p[2]))
    ELSE IF ValidDate(NumVal(p[3]), NumVal(p[2]), NumVal(p[1]))
    THEN DateOk(NumVal(p[3]), NumVal(p[2]), NumVal(p[1]))
    ELSE DateFail("date_mdy", s)

\* step 2 of parse_date on the three pieces of a matching string
MdyNumericDate(s, p) ==
    IF ValidDate(NumVal(p[3]), NumVal(p[1]), NumVal(p[2]))
    THEN DateOk(NumVal(p[3]), NumVal(p[1]), NumVal(p[2]))
    ELSE DateFail("date_mdy", s)

\* parse_date on the stripped text
ParseDateText(s) ==
    IF s = <<>> THEN DateFail("date_missing", <<>>)
    ELSE IF StrptimeNumeric(s, "-", 1, 2, 3).ok THEN StrptimeNumeric(s, "-", 1, 2, 3)
    ELSE IF MdyNumericMatch(s) THEN MdyNumericDate(s, SplitOn(s, {"-", "/"}, <<>>))
    ELSE IF StrptimeNamed(s, MonthAbbr).ok THEN StrptimeNamed(s, MonthAbbr)
    ELSE IF StrptimeNamed(s, MonthFull).ok THEN StrptimeNamed(s, MonthFull)
    ELSE IF StrptimeNumeric(s, "/", 3, 1, 2).ok THEN StrptimeNumeric(s, "/", 3, 1, 2)
    ELSE IF StrptimeNumeric(s, "-", 3, 1, 2).ok THEN StrptimeNumeric(s, "-", 3, 1, 2)
    ELSE DateFail("date_fail", s)

\* DocketIngester.parse_date: v is the JSON value handed in (str(5) is "5")
parse_date(v) ==
    IF v.t \in {"absent", "null"} THEN DateFail("date_missing", <<>>)
    ELSE IF v.t = "num" THEN ParseDateText(<<"5">>)
    ELSE ParseDateText(Strip(v.v))

\* ------------------------------------------------------ party list parser

RoleWords == << <<"p","l","a","i","n","t","i","f","f">>,
                <<"d","e","f","e","n","d","a","n","t">>,
                <<"p","l","a","i","n","t","i","f","f","s">>,
                <<"d","e","f","e","n","d","a","n","t","s">>,
                <<"t","h","i","r","d","_","p","a","r","t","y">>,
                <<"i","n","t","e","r","v","e","n","o","r">>,
                <<"o","t","h","e","r">> >>

OtherRole == <<"o","t","h","e","r">>

\* the role word w matches at position i of s under re.IGNORECASE: besides the
\* two cases of a letter, the long s (U+017F) matches s
RoleHit(s, i, w) ==
    /\ s[i] = "("
    /\ i + Len(w) + 1 <= Len(s)
    /\ [j \in 1..Len(w) |-> IF s[i + j] = "U+017F" THEN "s" ELSE LowerChar(s[i + j])] = w
    /\ s[i + Len(w) + 1] = ")"

\* group(1).lower() of the match of \((plaintiff|...|other)\) at position i of
\* s, or <<>>: the matched text in lower case (the long s is its own lower case)
RoleAt(s, i) ==
    IF \E k \in 1..Len(RoleWords) : RoleHit(s, i, RoleWords[k])
    THEN LowerStr(SubSeq(s, i + 1,
                         i + Len(RoleWords[CHOOSE k \in 1..Len(RoleWords) :
                                              RoleHit(s, i, RoleWords[k])])))
    ELSE <<>>

\* re.search(...).group(1).lower() of the leftmost match, or <<>> when none
RoleSearch(s) ==
    IF \E i \in 1..Len(s) : RoleAt(s, i) # <<>>
    THEN RoleAt(s, CHOOSE i \in 1..Len(s) :
                      RoleAt(s, i) # <<>> /\ \A j \in 1..(i - 1) : RoleAt(s, j) = <<>>)
    ELSE <<>>

RECURSIVE RemoveParens(_)
\* re.sub(r'\([^)]+\)', '', s)
RemoveParens(s) ==
    IF s = <<>> THEN <<>>
    ELSE IF Head(s) = "(" /\ IndexIn(")", s) > 2
         THEN RemoveParens(SubSeq(s, IndexIn(")", s) + 1, Len(s)))
    ELSE <<Head(s)>> \o RemoveParens(Tail(s))

StripAll(parts) == [i \in 1..Len(parts) |-> Strip(parts[i])]

\* [p.strip() for p in section.split(',') if p.strip()]
SplitNames(section) ==
    SelectSeq(StripAll(SplitOn(section, {","}, <<>>)), LAMBDA n : n # <<>>)

\* role.endswith('s'): role = role[:-1]
Singular(role) == IF role[Len(role)] = "s" THEN SubSeq(role, 1, Len(role) - 1) ELSE role

Tagged(names, role) == [i \in 1..Len(names) |-> [name |-> names[i], role |-> role]]

\* the (name, role) pairs of one stripped section, found is the role matched in it
SectionNames(section, found) ==
    IF section = <<>> THEN <<>>
    ELSE IF found # <<>>
         THEN Tagged(SplitNames(Strip(RemoveParens(section))), Singular(found))
    ELSE Tagged(SplitNames(section), OtherRole)

\* the (name, role) pairs of one major section
SectionParties(sec) == SectionNames(Strip(sec), RoleSearch(Strip(sec)))

RECURSIVE ConcatAll(_)
ConcatAll(ss) == IF ss = <<>> THEN <<>> ELSE Head(ss) \o ConcatAll(Tail(ss))

AllSections(secs) == ConcatAll([i \in 1..Len(secs) |-> SectionParties(secs[i])])

\* DocketIngester.parse_parties on a string
parse_parties(parties_str) ==
    IF parties_str = <<>> THEN <<>>
    ELSE AllSections(SplitOn(parties_str, {";", "/"}, <<>>))

\* ------------------------------------------------------------ JSON values

Absent == [t |-> "absent", v |-> <<>>]

Null == [t |-> "null", v |-> <<>>]

Num == [t |-> "num", v |-> <<>>]

S(text) == [t |-> "str", v |-> text]

\* Python truth value of a JSON value handed to `if not x`
Truthy(x) == x.t = "num" \/ (x.t = "str" /\ x.v # <<>>)

\* dict.get(key, default)
Get(docket, key, default) == IF docket[key].t = "absent" THEN default ELSE docket[key]

\* ------------------------------------------------------------- exceptions

NoMsg == [k |-> "none", arg |-> <<>>]

Quote(s) == <<"'">> \o s \o <<"'">>

\* str(e) of the exceptions process_docket raises
ErrorText(msg) ==
    CASE msg.k = "case_number_required" ->
           <<"c","a","s","e","_","n","u","m","b","e","r"," ","i","s"," ","r","e","q","u","i","r","e","d"," ","a","n","d"," ","c","a","n","n","o","t"," ","b","e"," ","e","m","p","t","y">>
      [] msg.k = "date_missing" ->
           <<"f","i","l","e","d","_","d","a","t","e"," ","m","i","s","s","i","n","g">>
      [] msg.k = "date_mdy" ->
           <<"f","i","l","e","d","_","d","a","t","e"," ","p","a","r","s","e"," ","f","a","i","l","e","d"," ","(","m","d","y"," ","n","u","m","e","r","i","c",")",":"," ">>
           \o Quote(msg.arg) \o <<":"," ">> \o <<"o","u","t"," ","o","f"," ","r","a","n","g","e">>
      [] msg.k = "date_fail" ->
           <<"f","i","l","e","d","_","d","a","t","e"," ","p","a","r","s","e"," ","f","a","i","l","e","d",":"," ">>
           \o Quote(msg.arg)
      [] msg.k = "court_empty" ->
           <<"C","o","u","r","t"," ","n","a","m","e"," ","c","a","n","n","o","t"," ","b","e"," ","e","m","p","t","y">>
      [] msg.k = "case_type_empty" ->
           <<"C","a","s","e"," ","t","y","p","e"," ","c","a","n","n","o","t"," ","b","e"," ","e","m","p","t","y">>
      [] msg.k = "party_empty" ->
           <<"P","a","r","t","y"," ","n","a","m","e"," ","c","a","n","n","o","t"," ","b","e"," ","e","m","p","t","y">>
      [] msg.k = "status_invalid" ->
           <<"I","n","v","a","l","i","d"," ","s","t","a","t","u","s"," ","'">> \o msg.arg
           \o <<"'","."," ","M","u","s","t"," ","b","e"," ","o","n","e"," ","o","f",":"," ","a","c","t","i","v","e",","," ","c","l","o","s","e","d",","," ","p","e","n","d","i","n","g",","," ","d","i","s","m","i","s","s","e","d">>
      [] OTHER -> <<>>

\* DocketIngester._determine_error_code
determine_error_code(msg) ==
    LET error_msg == LowerStr(ErrorText(msg))
    IN  IF Contains(error_msg, <<"c","a","s","e","_","n","u","m","b","e","r">>) THEN "MISSING_CASE_NUMBER"
        ELSE IF Contains(error_msg, <<"f","i","l","e","d","_","d","a","t","e">>)
                \/ Contains(error_msg, <<"d","a","t","e">>) THEN "BAD_DATE"
        ELSE IF Contains(error_msg, <<"s","t","a","t","u","s">>) THEN "STATUS_UNMAPPED"
        ELSE IF Contains(error_msg, <<"c","o","u","r","t">>) THEN "FK_COURT"
        ELSE IF Contains(error_msg, <<"c","a","s","e","_","t","y","p","e">>) THEN "FK_CASE_TYPE"
        ELSE IF Contains(error_msg, <<"j","u","d","g","e">>) THEN "FK_JUDGE"
        ELSE "VALIDATION_ERROR"

\* ------------------------------------------------------------------ store

\* column defaults of the schema (the schema file is not part of src/)
SeenCountDefault == 1

RetryCountDefault == 0

\* judge_id NULL
NoId == 0

EmptyDb == [courts |-> {}, judges |-> {}, case_types |-> {}, parties |-> {},
            court_name_variations |-> {}, judge_name_variations |-> {},
            party_name_variations |-> {},
            cases |-> {}, case_parties |-> <<>>,
            ingest_runs |-> {}, ingest_errors |-> {}, failed |-> FALSE]

EmptySeq == [courts |-> 0, judges |-> 0, case_types |-> 0, parties |-> 0,
             cases |-> 0, ingest_runs |-> 0]

EmptyMap == [k \in {} |-> 0]

\* DocketIngester.__init__: the four caches
EmptyCaches == [courts |-> EmptyMap, judges |-> EmptyMap,
                case_types |-> EmptyMap, parties |-> EmptyMap]

\* d[key] = value on a Python dict
MapPut(m, key, value) == [k \in DOMAIN m \cup {key} |-> IF k = key THEN value ELSE m[k]]

\* INSERT INTO <x>_name_variations ... ON CONFLICT (<x>_id, raw_name) DO UPDATE
\*   SET seen_count = seen_count + 1
UpsertVariation(rows, eid, raw) ==
    IF \E r \in rows : r.eid = eid /\ r.raw = raw
    THEN {IF r.eid = eid /\ r.raw = raw THEN [r EXCEPT !.seen = r.seen + 1] ELSE r : r \in rows}
    ELSE rows \cup {[eid |-> eid, raw |-> raw, seen |-> SeenCountDefault]}

\* A session is [db, seq, cache]: the tables as the open transaction sees them,
\* the id sequences (not transactional) and the ingester's caches.

\* DocketIngester.record_court_variation
record_court_variation(ss, court_id, raw_name) ==
    [ss EXCEPT !.db.court_name_variations = UpsertVariation(@, court_id, raw_name)]

\* DocketIngester.record_judge_variation
record_judge_variation(ss, judge_id, raw_name) ==
    [ss EXCEPT !.db.judge_name_variations = UpsertVariation(@, judge_id, raw_name)]

\* DocketIngester.record_party_variation
record_party_variation(ss, party_id, raw_name) ==
    [ss EXCEPT !.db.party_name_variations = UpsertVariation(@, party_id, raw_name)]

\* result of a call: exc is "none", "ValueError" or "Other" (AttributeError, TypeError)
Ret(ss, id) == [exc |-> "none", msg |-> NoMsg, id |-> id, ss |-> ss]

Raise(ss, exc, msg) == [exc |-> exc, msg |-> msg, id |-> NoId, ss |-> ss]

\* SELECT id FROM <table> WHERE <col> = key; fetchone()
SelectId(rows, col, key) ==
    IF \E r \in rows : r[col] = key THEN (CHOOSE r \in rows : r[col] = key).id ELSE NoId

\* INSERT INTO <table> (name, normalized_name) VALUES ... RETURNING id
InsertEntity(ss, table, name, normalized) ==
    [ss EXCEPT !.db[table] = @ \cup {[id |-> ss.seq[table] + 1, name |-> name,
                                      norm |-> normalized]},
               !.seq[table] = @ + 1]

\* self.<table>_cache[key] = id
CachePut(ss, table, key, id) == [ss EXCEPT !.cache[table] = MapPut(@, key, id)]

\* ------------------------------------------------------- entity resolver

\* get_or_create_court whose end also stores the spelling just seen as the name
CourtObservedRename(ss, court_id, raw) ==
    Ret(record_court_variation(
            [ss EXCEPT !.db.courts = {IF r.id = court_id THEN [r EXCEPT !.name = raw] ELSE r
                                         : r \in @}],
            court_id, raw),
        court_id)

\* get_or_create_court, its end: the variation is recorded, the id returned
CourtObserved(ss, court_id, raw) ==
    Ret(record_court_variation(ss, court_id, raw), court_id)

\* get_or_create_court without the SELECT on a cache miss
CourtLookupNoSelect(ss, raw, normalized) ==
    IF normalized \in DOMAIN ss.cache.courts
    THEN CourtObserved(ss, ss.cache.courts[normalized], raw)
    ELSE CourtObserved(CachePut(InsertEntity(ss, "courts", raw, normalized),
                                "courts", normalized, ss.seq.courts + 1),
                       ss.seq.courts + 1, raw)

\* get_or_create_court, from the cache check to the cache fill
CourtLookup(ss, raw, normalized) ==
    IF normalized \in DOMAIN ss.cache.courts
    THEN CourtObserved(ss, ss.cache.courts[normalized], raw)
    ELSE IF SelectId(ss.db.courts, "norm", normalized) # NoId
    THEN CourtObserved(CachePut(ss, "courts", normalized,
                                SelectId(ss.db.courts, "norm", normalized)),
                       SelectId(ss.db.courts, "norm", normalized), raw)
    ELSE CourtObserved(CachePut(InsertEntity(ss, "courts", raw, normalized),
                                "courts", normalized, ss.seq.courts + 1),
                       ss.seq.courts + 1, raw)

\* DocketIngester.get_or_create_court
get_or_create_court(ss, court_name) ==
    IF ~Truthy(court_name) THEN Raise(ss, "ValueError", [k |-> "court_empty", arg |-> <<>>])
    ELSE IF court_name.t # "str" THEN Raise(ss, "Other", NoMsg)
    ELSE CourtLookup(ss, court_name.v, normalize_court_name(court_name.v))

\* get_or_create_judge, its end: the variation is recorded, the id returned
JudgeObserved(ss, judge_id, raw) ==
    Ret(record_judge_variation(ss, judge_id, raw), judge_id)

\* get_or_create_judge returning on a cache hit before the variation is recorded
JudgeLookupSilentHit(ss, raw, normalized) ==
    IF normalized = <<>> THEN Ret(ss, NoId)
    ELSE IF normalized \in DOMAIN ss.cache.judges
    THEN Ret(ss, ss.cache.judges[normalized])
    ELSE IF SelectId(ss.db.judges, "norm", normalized) # NoId
    THEN JudgeObserved(CachePut(ss, "judges", normalized,
                                SelectId(ss.db.judges, "norm", normalized)),
                       SelectId(ss.db.judges, "norm", normalized), raw)
    ELSE JudgeObserved(CachePut(InsertEntity(ss, "judges", raw, normalized),
                                "judges", normalized, ss.seq.judges + 1),
                       ss.seq.judges + 1, raw)

\* get_or_create_judge, from the empty-key check to the cache fill
JudgeLookup(ss, raw, normalized) ==
    IF normalized = <<>> THEN Ret(ss, NoId)
    ELSE IF normalized \in DOMAIN ss.cache.judges
    THEN JudgeObserved(ss, ss.cache.judges[normalized], raw)
    ELSE IF SelectId(ss.db.judges, "norm", normalized) # NoId
    THEN JudgeObserved(CachePut(ss, "judges", normalized,
                                SelectId(ss.db.judges, "norm", normalized)),
                       SelectId(ss.db.judges, "norm", normalized), raw)
    ELSE JudgeObserved(CachePut(InsertEntity(ss, "judges", raw, normalized),
                                "judges", normalized, ss.seq.judges + 1),
                       ss.seq.judges + 1, raw)

\* DocketIngester.get_or_create_judge
get_or_create_judge(ss, judge_name) ==
    IF ~Truthy(judge_name) THEN Ret(ss, NoId)
    ELSE IF judge_name.t # "str" THEN Raise(ss, "Other", NoMsg)
    ELSE JudgeLookup(ss, judge_name.v, normalize_judge_name(judge_name.v))

\* get_or_create_case_type, from the cache check on
CaseTypeLookup(ss, case_type) ==
    IF case_type \in DOMAIN ss.cache.case_types
    THEN Ret(ss, ss.cache.case_types[case_type])
    ELSE IF SelectId(ss.db.case_types, "name", case_type) # NoId
    THEN Ret(CachePut(ss, "case_types", case_type,
                      SelectId(ss.db.case_types, "name", case_type)),
             SelectId(ss.db.case_types, "name", case_type))
    ELSE Ret(CachePut([ss EXCEPT !.db.case_types = @ \cup {[id |-> ss.seq.case_types + 1,
                                                            name |-> case_type]},
                                 !.seq.case_types = @ + 1],
                      "case_types", case_type, ss.seq.case_types + 1),
             ss.seq.case_types + 1)

\* DocketIngester.get_or_create_case_type
get_or_create_case_type(ss, case_type) ==
    IF ~Truthy(case_type) THEN Raise(ss, "ValueError", [k |-> "case_type_empty", arg |-> <<>>])
    ELSE IF case_type.t # "str" THEN Raise(ss, "Other", NoMsg)
    ELSE CaseTypeLookup(ss, Strip(LowerStr(case_type.v)))

\* get_or_create_party, its end: the variation is recorded, the id returned
PartyObserved(ss, party_id, raw) ==
    Ret(record_party_variation(ss, party_id, raw), party_id)

\* get_or_create_party, from the cache check to the cache fill
PartyLookup(ss, raw, normalized) ==
    IF normalized \in DOMAIN ss.cache.parties
    THEN PartyObserved(ss, ss.cache.parties[normalized], raw)
    ELSE IF SelectId(ss.db.parties, "norm", normalized) # NoId
    THEN PartyObserved(CachePut(ss, "parties", normalized,
                                SelectId(ss.db.parties, "norm", normalized)),
                       SelectId(ss.db.parties, "norm", normalized), raw)
    ELSE PartyObserved(CachePut(InsertEntity(ss, "parties", raw, normalized),
                                "parties", normalized, ss.seq.parties + 1),
                       ss.seq.parties + 1, raw)

\* DocketIngester.get_or_create_party (party_name is a text)
get_or_create_party(ss, party_name) ==
    IF party_name = <<>> THEN Raise(ss, "ValueError", [k |-> "party_empty", arg |-> <<>>])
    ELSE PartyLookup(ss, party_name, normalize_party_name(party_name))

\* ------------------------------------------------------- record processor

Civil == <<"c","i","v","i","l">>

Active == <<"a","c","t","i","v","e">>

StatusList == { <<"a","c","t","i","v","e">>, <<"c","l","o","s","e","d">>,
                <<"p","e","n","d","i","n","g">>, <<"d","i","s","m","i","s","s","e","d">> }

CaseRow(id, case_number, court_id, title, filed_date, case_type_id, judge_id, docket_text, status) ==
    [id |-> id, case_number |-> case_number, court_id |-> court_id,
     title |-> title, filed_date |-> filed_date, case_type_id |-> case_type_id,
     judge_id |-> judge_id, docket_text |-> docket_text, status |-> status]

\* the upsert with DO UPDATE SET title alone: the other fields of the old row stay
UpsertCaseTitleOnly(ss, row, old) ==
    IF old = {}
    THEN [inserted |-> TRUE, id |-> ss.seq.cases + 1,
          ss |-> [ss EXCEPT !.db.cases = @ \cup {[row EXCEPT !.id = ss.seq.cases + 1]},
                            !.seq.cases = @ + 1]]
    ELSE [inserted |-> FALSE, id |-> (CHOOSE r \in old : TRUE).id,
          ss |-> [ss EXCEPT !.db.cases = (@ \ old) \cup {[r EXCEPT !.title = row.title] : r \in old}]]

\* INSERT INTO cases without the ON CONFLICT clause
UpsertCaseNoConflict(ss, row, old) ==
    [inserted |-> TRUE, id |-> ss.seq.cases + 1,
     ss |-> [ss EXCEPT !.db.cases = @ \cup {[row EXCEPT !.id = ss.seq.cases + 1]},
                       !.seq.cases = @ + 1]]

\* INSERT INTO cases ... ON CONFLICT (case_number) DO UPDATE SET ... RETURNING id, (xmax = 0)
\* row is the new row but for its id, old the rows with its case_number
UpsertCase(ss, row, old) ==
    IF old = {}
    THEN [inserted |-> TRUE, id |-> ss.seq.cases + 1,
          ss |-> [ss EXCEPT !.db.cases = @ \cup {[row EXCEPT !.id = ss.seq.cases + 1]},
                            !.seq.cases = @ + 1]]
    ELSE [inserted |-> FALSE, id |-> (CHOOSE r \in old : TRUE).id,
          ss |-> [ss EXCEPT !.db.cases = (@ \ old) \cup {[row EXCEPT !.id = r.id] : r \in old}]]

\* INSERT INTO case_parties without the ON CONFLICT clause
LinkPartyNoConflict(ss, case_id, party_id, role) ==
    [ss EXCEPT !.db.case_parties =
        Append(@, [case_id |-> case_id, party_id |-> party_id, role |-> role])]

\* INSERT INTO case_parties ... ON CONFLICT (case_id, party_id, role) DO NOTHING
LinkParty(ss, case_id, party_id, role) ==
    IF \E k \in 1..Len(ss.db.case_parties) :
          ss.db.case_parties[k] = [case_id |-> case_id, party_id |-> party_id, role |-> role]
    THEN ss
    ELSE [ss EXCEPT !.db.case_parties =
             Append(@, [case_id |-> case_id, party_id |-> party_id, role |-> role])]

\* one pass of the party loop: p is what get_or_create_party returned; its
\* exception is logged and the loop goes on
PartyStep(p, case_id, role) ==
    IF p.exc = "none" THEN LinkParty(p.ss, case_id, p.id, role) ELSE p.ss

RECURSIVE LinkParties(_, _, _)
\* the loop over the parsed parties
LinkParties(ss, case_id, parties) ==
    IF parties = <<>> THEN ss
    ELSE LinkParties(PartyStep(get_or_create_party(ss, Head(parties).name),
                               case_id, Head(parties).role),
                     case_id, Tail(parties))

Outcome(exc, msg, action, ss) == [exc |-> exc, msg |-> msg, action |-> action, ss |-> ss]

\* a variant that treats an empty party list as a rejection
ProcessPartiesRequired(docket, up, pv) ==
    IF pv.t = "num" THEN Outcome("Other", NoMsg, "", up.ss)
    ELSE IF (IF Truthy(pv) THEN parse_parties(pv.v) ELSE <<>>) = <<>>
    THEN Outcome("ValueError", [k |-> "court_empty", arg |-> <<>>], "", up.ss)
    ELSE Outcome("none", NoMsg, IF up.inserted THEN "inserted" ELSE "updated",
                 LinkParties(up.ss, up.id, parse_parties(pv.v)))

\* a variant that replaces the links of the case by those of the record
ProcessPartiesReplace(docket, up, pv) ==
    IF pv.t = "num" THEN Outcome("Other", NoMsg, "", up.ss)
    ELSE Outcome("none", NoMsg, IF up.inserted THEN "inserted" ELSE "updated",
                 LinkParties([up.ss EXCEPT !.db.case_parties =
                                 SelectSeq(@, LAMBDA r : r.case_id # up.id)],
                             up.id,
                             IF Truthy(pv) THEN parse_parties(pv.v) ELSE <<>>))

\* process_docket after the case upsert: the parties
ProcessParties(docket, up, pv) ==
    IF pv.t = "num" THEN Outcome("Other", NoMsg, "", up.ss)
    ELSE Outcome("none", NoMsg, IF up.inserted THEN "inserted" ELSE "updated",
                 LinkParties(up.ss, up.id,
                             IF Truthy(pv) THEN parse_parties(pv.v) ELSE <<>>))

\* process_docket from the status check to the case upsert
ProcessStatus(docket, case_number, fd, court_id, judge_id, ct, st) ==
    IF ct.exc # "none" THEN Outcome(ct.exc, ct.msg, "", ct.ss)
    ELSE IF st.t # "str" THEN Outcome("Other", NoMsg, "", ct.ss)
    ELSE IF LowerStr(st.v) \notin StatusList
         THEN Outcome("ValueError", [k |-> "status_invalid", arg |-> LowerStr(st.v)], "", ct.ss)
    ELSE ProcessParties(docket,
             UpsertCase(ct.ss,
                        CaseRow(NoId, case_number, court_id, Get(docket, "title", S(<<>>)),
                                <<fd.y, fd.m, fd.d>>, ct.id, judge_id,
                                Get(docket, "docket_text", S(<<>>)), LowerStr(st.v)),
                        {r \in ct.ss.db.cases : r.case_number = case_number}),
             Get(docket, "parties", S(<<>>)))

\* process_docket after get_or_create_judge returned j
ProcessJudge(docket, case_number, fd, court_id, j) ==
    IF j.exc # "none" THEN Outcome(j.exc, j.msg, "", j.ss)
    ELSE ProcessStatus(docket, case_number, fd, court_id, j.id,
                       get_or_create_case_type(j.ss, Get(docket, "case_type", S(Civil))),
                       Get(docket, "status", S(Active)))

\* process_docket after get_or_create_court returned c
ProcessCourt(docket, case_number, fd, c) ==
    IF c.exc # "none" THEN Outcome(c.exc, c.msg, "", c.ss)
    ELSE ProcessJudge(docket, case_number, fd, c.id,
                      get_or_create_judge(c.ss, Get(docket, "judge", Null)))

\* process_docket after parse_date returned fd
ProcessDate(ss, docket, case_number, fd) ==
    IF ~fd.ok THEN Outcome("ValueError", fd.msg, "", ss)
    ELSE ProcessCourt(docket, case_number, fd,
                      get_or_create_court(ss, Get(docket, "court", S(<<>>))))

\* process_docket once case_number is known to be a string
ProcessCaseNumber(ss, docket, case_number) ==
    IF case_number = <<>>
    THEN Outcome("ValueError", [k |-> "case_number_required", arg |-> <<>>], "", ss)
    ELSE ProcessDate(ss, docket, case_number,
                     parse_date(Get(docket, "filed_date", S(<<>>))))

\* DocketIngester.process_docket: exc "none" with the action, or the exception
\* raised, with the session as the statements executed so far left it
process_docket(ss, docket) ==
    IF docket.json # "object" \/ Get(docket, "case_number", S(<<>>)).t # "str"
    THEN Outcome("Other", NoMsg, "", ss)
    ELSE ProcessCaseNumber(ss, docket, Strip(Get(docket, "case_number", S(<<>>)).v))

\* ------------------------------------------------------------ run tracker

\* json.dumps(obj) without sort_keys: the key order of the raw object is kept
json_dumps_unsorted(obj) == obj

\* canonical_json: json.dumps(obj, sort_keys=True): the key order of the raw
\* object (field ord) is replaced by the sorted one
canonical_json(obj) == [obj EXCEPT !.ord = "sorted"]

\* sha256_hex, taken as collision free: the digest stands for its input
sha256_hex(text) == text

QuarantineLine(run_id, raw_row, error_code, why) ==
    [run_id |-> run_id, error_code |-> error_code, why |-> why, raw |-> raw_row,
     record_hash |-> sha256_hex(canonical_json(raw_row))]

AppendLine(files, p, line) ==
    MapPut(files, p, IF p \in DOMAIN files THEN Append(files[p], line) ELSE <<line>>)

\* a variant that writes the line only through the error table: the file is untouched
write_quarantine_after_error(files, run_id, raw_row, error_code, why, path) ==
    [files |-> files, path |-> IF path = NoId THEN run_id ELSE path]

\* DocketIngester.write_quarantine_jsonl: the files after the append, and the path used
write_quarantine_jsonl(files, run_id, raw_row, error_code, why, path) ==
    [files |-> AppendLine(files, IF path = NoId THEN run_id ELSE path,
                          QuarantineLine(run_id, raw_row, error_code, why)),
     path  |-> IF path = NoId THEN run_id ELSE path]

ErrorRow(run_id, record_hash, case_number, error_code, error_msg) ==
    [run_id |-> run_id, record_hash |-> record_hash, case_number |-> case_number,
     error_code |-> error_code, error_message |-> error_msg,
     retry_count |-> RetryCountDefault]

\* UPDATE ingest_errors SET retry_count = retry_count + 1 WHERE run_id, record_hash;
\* INSERT when no row matched
UpsertError(dbs, row) ==
    IF \E r \in dbs.ingest_errors : r.run_id = row.run_id /\ r.record_hash = row.record_hash
    THEN [dbs EXCEPT !.ingest_errors =
             {IF r.run_id = row.run_id /\ r.record_hash = row.record_hash
              THEN [r EXCEPT !.retry_count = @ + 1] ELSE r : r \in @}]
    ELSE [dbs EXCEPT !.ingest_errors = @ \cup {row}]

\* DocketIngester.record_error, up to its commit
record_error(dbs, run_id, raw_row, error_code, error_msg, case_number) ==
    UpsertError(dbs, ErrorRow(run_id, sha256_hex(canonical_json(raw_row)), case_number,
                              error_code, error_msg))

\* ----------------------------------------------------------------- inputs

\* program constant: the commit interval of the record loop
CommitInterval == 100

\* if i % 100 == 0, with a commit one record late
CommitDueLate(n) == n % (CommitInterval + 1) = 0

\* if i % 100 == 0: the record at 1-based position n is followed by a commit
CommitDue(n) == n % CommitInterval = 0

\* bounds of the model
MaxBatch == 3

MaxRuns == 2

\* bound: the records of all batches of one history
MaxRecords == 4

\* bound: the store failures (lost connection, failing statement) of one history
MaxStoreFailures == 1

BaseRecord ==
    [json |-> "object", ord |-> "sorted",
     case_number |-> S(<<"1">>), title |-> S(<<"t">>),
     filed_date |-> S(<<"1","0","-","3","-","2","0","2","4">>),
     court |-> S(<<"S",".","D",".">>), judge |-> S(<<"H","o","n","."," ","A">>),
     case_type |-> Absent, status |-> Absent, docket_text |-> Absent,
     parties |-> S(<<"A"," ","(","p","l","a","i","n","t","i","f","f",")",";"," ","B",","," ","a"," ","(","d","e","f","e","n","d","a","n","t","s",")">>)]

\* the same case again: other title, other spellings of court and judge, one party less
UpdateRecord ==
    [BaseRecord EXCEPT !.case_number = S(<<" ","1">>), !.title = S(<<"u">>),
                       !.court = S(<<"s","d">>), !.judge = S(<<"J","u","d","g","e"," ","a">>),
                       !.status = S(<<"C","L","O","S","E","D">>), !.parties = S(<<"B"," ","(","d","e","f","e","n","d","a","n","t",")">>)]

BadDateRecord ==
    [BaseRecord EXCEPT !.case_number = S(<<"2">>), !.filed_date = S(<<"1","3","-","4","0","-","2","0","2","4">>)]

\* BadDateRecord with its keys in another order
ReorderedBadDateRecord == [BadDateRecord EXCEPT !.ord = "reversed"]

\* a court not seen before, then a status outside the list
BadStatusRecord ==
    [BaseRecord EXCEPT !.case_number = S(<<"2">>), !.court = S(<<"N",".","D">>),
                       !.status = S(<<"b","o","g","u","s">>)]

NullCaseNumberRecord == [BaseRecord EXCEPT !.case_number = Null]

NoCaseNumberRecord == [BaseRecord EXCEPT !.case_number = Absent]

\* a court made of a space and a period
BlankCourtRecord ==
    [BaseRecord EXCEPT !.case_number = S(<<"2">>), !.court = S(<<" ",".">>)]

\* a case type made of a space
BlankCaseTypeRecord ==
    [BaseRecord EXCEPT !.case_number = S(<<"2">>), !.case_type = S(<<" ">>)]

NumPartiesRecord == [BaseRecord EXCEPT !.case_number = S(<<"2">>), !.parties = Num]

NoPartiesRecord ==
    [BaseRecord EXCEPT !.case_number = S(<<"2">>), !.judge = Absent, !.parties = Absent]

NotObjectRecord == [BaseRecord EXCEPT !.json = "other"]

\* a status outside the list whose text contains "date"
UpdatedStatusRecord ==
    [BaseRecord EXCEPT !.case_number = S(<<"2">>), !.status = S(<<"U","p","d","a","t","e","d">>)]

\* a date string that does not resolve and whose text is "case_number"
CaseNumberDateRecord ==
    [BaseRecord EXCEPT !.case_number = S(<<"2">>),
                       !.filed_date = S(<<"c","a","s","e","_","n","u","m","b","e","r">>)]

\* a whitespace-only case_number, with a bad date and a bad status as well
BlankCaseNumberRecord ==
    [BaseRecord EXCEPT !.case_number = S(<<" ">>),
                       !.filed_date = S(<<"1","3","-","4","0","-","2","0","2","4">>),
                       !.status = S(<<"b","o","g","u","s">>)]

\* the same (name, role) pair twice in the party string
DupPartiesRecord ==
    [BaseRecord EXCEPT !.case_number = S(<<"2">>),
                       !.parties = S(<<"A",","," ","A"," ","(","p","l","a","i","n","t","i","f","f",")">>)]

\* a role token written with the long s (U+017F)
LongSRoleRecord ==
    [BaseRecord EXCEPT !.parties = S(<<"A"," ","(","d","e","f","e","n","d","a","n","t","U+017F",")">>)]

\* a party string that parses to no names
SeparatorPartiesRecord ==
    [BaseRecord EXCEPT !.case_number = S(<<"2">>), !.parties = S(<<" ",";"," ">>)]

\* the record vocabularies: the input files of one history are made of the
\* records of one of them
Pools == { {BaseRecord, UpdateRecord, BadDateRecord},
           {BadDateRecord, ReorderedBadDateRecord, BadStatusRecord},
           {BaseRecord, NullCaseNumberRecord, NotObjectRecord},
           {BlankCourtRecord, BlankCaseTypeRecord, NoCaseNumberRecord},
           {NumPartiesRecord, NoPartiesRecord, UpdateRecord},
           {UpdatedStatusRecord, CaseNumberDateRecord, BlankCaseNumberRecord},
           {DupPartiesRecord, SeparatorPartiesRecord, LongSRoleRecord} }

\* the batches a run may be given: json.load of the input file
Batches(records) == UNION {[1..n -> records] : n \in 0..MaxBatch}

\* ------------------------------------------------------------------ state

VARIABLES
    db,              \* the tables as the ingester's open transaction sees them
    committed,       \* the tables as last committed
    seq,             \* the id sequences of the store
    caches,          \* courts_cache, judges_cache, case_types_cache, parties_cache
    counts,          \* self.counts
    run_id,          \* self.run_id (NoId: None)
    quarantine_path, \* self.quarantine_path (NoId: None)
    quarantine,      \* the quarantine files: path -> lines
    batch,           \* dockets, the loaded batch
    i,               \* position of the record loop
    pc,              \* "idle", "running", "finishing" (final commit done), "done" or
                     \* "aborted" (ingest_file raised)
    nruns,           \* ingest_file calls made so far
    abortCause,      \* why the last ingest_file raised
    hist,            \* history: what happened to each record of the current run
    pre,             \* history: the tables before the last record was handled
    lastRun,         \* history: the last completed run
    rerunOf,         \* history: the last completed run, when this run has its batch
    pool,            \* the records the input files are made of
    calls,           \* history: the direct resolver calls made (SpecResolve)
    nfail,           \* store failures so far
    nrec,            \* records of the batches ingested so far
    race             \* two ingesters resolving against one store (SpecRace):
                     \* unique (the store enforces unique normalized names) and,
                     \* per ingester, its cache, its open transaction and its
                     \* position in get_or_create_court / get_or_create_party

vars == <<db, committed, seq, caches, counts, run_id, quarantine_path, quarantine,
          batch, i, pc, nruns, abortCause, hist, pre, lastRun, rerunOf, pool, race, calls, nfail, nrec>>

ZeroCounts == [read |-> 0, inserted |-> 0, updated |-> 0, failed |-> 0]

NoRun == [valid |-> FALSE, batch |-> <<>>, cases |-> {}, parties |-> {},
          case_parties |-> <<>>, counts |-> ZeroCounts]

\* the tables the raced resolvers write
RaceTables == {"courts", "parties", "court_name_variations", "party_name_variations"}

\* two ingesters after __init__: empty caches, nothing written, no call under way
IdleRace(unique) ==
    [unique |-> unique,
     r |-> [p \in {1, 2} |->
              [pc |-> "idle", table |-> "courts", raw |-> <<>>, key |-> <<>>, id |-> NoId,
               cache |-> EmptyCaches, own |-> [t \in RaceTables |-> {}],
               missed |-> <<>>, ncalls |-> 0]]]

\* DocketIngester.__init__ on an empty store; unique says whether the store
\* enforces unique normalized names
InitAll(records, unique) ==
    /\ pool = records
    /\ db = EmptyDb
    /\ committed = EmptyDb
    /\ seq = EmptySeq
    /\ caches = EmptyCaches
    /\ counts = ZeroCounts
    /\ run_id = NoId
    /\ quarantine_path = NoId
    /\ quarantine = EmptyMap
    /\ batch = <<>>
    /\ i = 0
    /\ pc = "idle"
    /\ nruns = 0
    /\ abortCause = "none"
    /\ hist = <<>>
    /\ pre = EmptyDb
    /\ lastRun = NoRun
    /\ rerunOf = NoRun
    /\ calls = <<>>
    /\ nfail = 0
    /\ nrec = 0
    /\ race = IdleRace(unique)

InitWith(records) == InitAll(records, TRUE)

Init == \E records \in Pools : InitWith(records)

Sess == [db |-> db, seq |-> seq, cache |-> caches]

\* DocketIngester.start_run: the run row, committed
start_run(dbs, sq) ==
    LET id == sq.ingest_runs + 1
    IN  [run_id |-> id,
         seq |-> [sq EXCEPT !.ingest_runs = id],
         db  |-> [dbs EXCEPT !.ingest_runs = @ \cup
                     {[run_id |-> id, finished |-> FALSE, total_read |-> 0,
                       total_inserted |-> 0, total_updated |-> 0, total_failed |-> 0]}]]

\* finish_run stamping finished_at without the totals
finish_run_stamp_only(dbs, id, totals) ==
    [dbs EXCEPT !.ingest_runs =
        {IF r.run_id = id THEN [r EXCEPT !.finished = TRUE] ELSE r : r \in @}]

\* DocketIngester.finish_run, up to its commit
finish_run(dbs, id, totals) ==
    [dbs EXCEPT !.ingest_runs =
        {IF r.run_id = id
         THEN [r EXCEPT !.finished = TRUE, !.total_read = totals.read,
                        !.total_inserted = totals.inserted,
                        !.total_updated = totals.updated,
                        !.total_failed = totals.failed]
         ELSE r : r \in @}]

\* ------------------------------------------------------- pipeline driver

\* ingest_file up to the record loop: counters reset, file read and parsed,
\* start_run
IngestFileStart(b) ==
    /\ pc \in {"idle", "done"}
    /\ nruns < MaxRuns
    /\ nrec' = nrec + Len(b)
    /\ LET sr == start_run(db, seq)
       IN  /\ db' = sr.db
           /\ committed' = sr.db
           /\ seq' = sr.seq
           /\ run_id' = sr.run_id
    /\ counts' = ZeroCounts
    /\ quarantine_path' = NoId
    /\ batch' = b
    /\ i' = 0
    /\ pc' = "running"
    /\ nruns' = nruns + 1
    /\ abortCause' = "none"
    /\ hist' = <<>>
    /\ pre' = db
    /\ rerunOf' = IF lastRun.valid /\ lastRun.batch = b THEN lastRun ELSE NoRun
    /\ UNCHANGED <<caches, quarantine, lastRun, pool, race, calls, nfail>>

\* ingest_file on a file that cannot be opened or is not JSON: the exception
\* is raised before start_run
IngestFileFatal(cause) ==
    /\ pc \in {"idle", "done"}
    /\ nruns < MaxRuns
    /\ counts' = ZeroCounts
    /\ pc' = "aborted"
    /\ nruns' = nruns + 1
    /\ abortCause' = cause
    /\ hist' = <<>>
    /\ lastRun' = NoRun
    /\ rerunOf' = NoRun
    /\ UNCHANGED <<db, committed, seq, caches, run_id, quarantine_path, quarantine,
                   batch, i, pre, pool, race, calls, nfail, nrec>>

\* the handlers evaluate docket.get('case_number', '').strip(): it raises for a
\* record that is no object or whose case_number is no string
HandlerRaises(docket) ==
    docket.json # "object" \/ Get(docket, "case_number", S(<<>>)).t # "str"

\* _determine_error_code for a ValueError, "UNKNOWN" for any other exception
ErrorCode(r) == IF r.exc = "ValueError" THEN determine_error_code(r.msg) ELSE "UNKNOWN"

HistEntry(docket, r, res, code, dbs) ==
    [rec |-> docket, result |-> res, exc |-> r.exc, code |-> code, action |-> r.action,
     party_failed |-> FALSE,
     existed |-> /\ ~HandlerRaises(docket)
                 /\ \E c \in dbs.cases :
                       c.case_number = Strip(Get(docket, "case_number", S(<<>>)).v)]

\* the counters with every accepted record counted as an insert
TallyAsInserted(c, action) == [c EXCEPT !.read = @ + 1, !.inserted = @ + 1]

\* the counters of an accepted record without the increment of read
TallyActionOnly(c, action) == [c EXCEPT ![action] = @ + 1]

\* self.counts['read'] += 1, then self.counts[action] += 1 for the action returned
Tally(c, action) == [c EXCEPT !.read = @ + 1, ![action] = @ + 1]

\* the body of the record loop for the record docket, r is what process_docket did
LoopBody(docket, r) ==
    /\ i' = i + 1
    /\ pre' = db
    /\ seq' = r.ss.seq
    /\ caches' = r.ss.cache
    /\ IF r.exc = "none"
       THEN /\ counts' = Tally(counts, r.action)
            /\ db' = r.ss.db
            /\ committed' = IF CommitDue(i + 1) THEN r.ss.db ELSE committed
            /\ pc' = "running"
            /\ hist' = Append(hist, HistEntry(docket, r, "accepted", "", db))
            /\ UNCHANGED <<quarantine, quarantine_path, abortCause, lastRun>>
       ELSE IF HandlerRaises(docket)
       THEN \* the handler raises; the outer handler rolls back and re-raises
            /\ counts' = [counts EXCEPT !.read = @ + 1]
            /\ db' = committed
            /\ pc' = "aborted"
            /\ abortCause' = "record"
            /\ hist' = Append(hist, HistEntry(docket, r, "aborted", "", db))
            /\ lastRun' = NoRun
            /\ UNCHANGED <<committed, quarantine, quarantine_path>>
       ELSE /\ counts' = [counts EXCEPT !.read = @ + 1, !.failed = @ + 1]
            /\ quarantine' = write_quarantine_jsonl(quarantine, run_id, docket,
                                 ErrorCode(r), r.msg, quarantine_path).files
            /\ quarantine_path' = write_quarantine_jsonl(quarantine, run_id, docket,
                                 ErrorCode(r), r.msg, quarantine_path).path
            /\ db' = record_error(r.ss.db, run_id, docket, ErrorCode(r), r.msg,
                                  Strip(Get(docket, "case_number", S(<<>>)).v))
            /\ committed' = db'
            /\ pc' = "running"
            /\ hist' = Append(hist, HistEntry(docket, r, "rejected", ErrorCode(r), db))
            /\ UNCHANGED <<abortCause, lastRun>>

\* one pass of the record loop of ingest_file, with its exception handlers
HandleRecord ==
    /\ pc = "running"
    /\ i < Len(batch)
    /\ ~db.failed
    /\ LoopBody(batch[i + 1], process_docket(Sess, batch[i + 1]))
    /\ UNCHANGED <<run_id, batch, nruns, rerunOf, pool, race, calls, nfail, nrec>>

\* the part of process_docket that runs without a statement, when the first
\* statement it reaches raises (the open transaction has failed)
FailedTxOutcome(ss, case_number, fd, court) ==
    IF case_number = <<>>
    THEN Outcome("ValueError", [k |-> "case_number_required", arg |-> <<>>], "", ss)
    ELSE IF ~fd.ok THEN Outcome("ValueError", fd.msg, "", ss)
    ELSE IF ~Truthy(court)
    THEN Outcome("ValueError", [k |-> "court_empty", arg |-> <<>>], "", ss)
    ELSE Outcome("Other", NoMsg, "", ss)

\* the loop body once the record was quarantined and record_error raised: the
\* exception leaves the loop, the outer handler rolls back and re-raises
ErrorWriteFails(docket, r) ==
    /\ i' = i + 1
    /\ pre' = db
    /\ counts' = [counts EXCEPT !.read = @ + 1]
    /\ quarantine' = write_quarantine_jsonl(quarantine, run_id, docket,
                         ErrorCode(r), r.msg, quarantine_path).files
    /\ quarantine_path' = write_quarantine_jsonl(quarantine, run_id, docket,
                         ErrorCode(r), r.msg, quarantine_path).path
    /\ db' = committed
    /\ pc' = "aborted"
    /\ abortCause' = "store"
    /\ hist' = Append(hist, HistEntry(docket, r, "error_write_failed", ErrorCode(r), db))
    /\ lastRun' = NoRun
    /\ UNCHANGED <<committed, seq, caches>>

\* one pass of the record loop in a failed transaction: every statement
\* raises, the one of record_error too
HandleRecordFailedTx ==
    /\ pc = "running"
    /\ i < Len(batch)
    /\ db.failed
    /\ IF HandlerRaises(batch[i + 1])
       THEN LoopBody(batch[i + 1], Outcome("Other", NoMsg, "", Sess))
       ELSE ErrorWriteFails(batch[i + 1],
                FailedTxOutcome(Sess, Strip(Get(batch[i + 1], "case_number", S(<<>>)).v),
                                parse_date(Get(batch[i + 1], "filed_date", S(<<>>))),
                                Get(batch[i + 1], "court", S(<<>>))))
    /\ UNCHANGED <<run_id, batch, nruns, rerunOf, pool, race, calls, nfail, nrec>>

\* the loop body for a record whose first party statement raises: up is what
\* process_docket did up to the case upsert; the party loop logs the
\* exception of every party statement and process_docket returns the action
PartyFailure(docket, up) ==
    /\ i' = i + 1
    /\ pre' = db
    /\ seq' = up.ss.seq
    /\ caches' = up.ss.cache
    /\ counts' = Tally(counts, up.action)
    /\ db' = IF CommitDue(i + 1) THEN committed
             ELSE [committed EXCEPT !.failed = TRUE]
    /\ hist' = Append(hist, [HistEntry(docket, up, "accepted", "", db)
                                EXCEPT !.party_failed = TRUE])
    /\ UNCHANGED <<committed, pc, quarantine, quarantine_path, abortCause, lastRun>>

\* one pass of the record loop in which a statement of the party loop raises
\* a store error (the connection stays up)
PartyStatementFails ==
    /\ pc = "running"
    /\ i < Len(batch)
    /\ ~db.failed
    /\ process_docket(Sess, batch[i + 1]).exc = "none"
    /\ Truthy(Get(batch[i + 1], "parties", S(<<>>)))
    /\ parse_parties(Get(batch[i + 1], "parties", S(<<>>)).v) # <<>>
    /\ nfail < MaxStoreFailures
    /\ nfail' = nfail + 1
    /\ PartyFailure(batch[i + 1],
                    process_docket(Sess, [batch[i + 1] EXCEPT !.parties = Absent]))
    /\ UNCHANGED <<run_id, batch, nruns, rerunOf, pool, race, calls, nrec>>

\* the end of the record loop: the final commit (the rollback of a failed
\* transaction)
FinalCommit ==
    /\ pc = "running"
    /\ i = Len(batch)
    /\ db' = IF db.failed THEN committed ELSE db
    /\ committed' = db'
    /\ pc' = "finishing"
    /\ UNCHANGED <<seq, caches, counts, run_id, quarantine_path, quarantine, batch, i,
                   nruns, abortCause, hist, pre, lastRun, rerunOf, pool, race, calls, nfail, nrec>>

\* the end of ingest_file: finish_run, summary
FinishRun ==
    /\ pc = "finishing"
    /\ LET done == finish_run(db, run_id, counts)
       IN  /\ db' = done
           /\ committed' = done
           /\ lastRun' = IF \E k \in 1..Len(hist) : hist[k].party_failed THEN NoRun
                         ELSE [valid |-> TRUE, batch |-> batch, cases |-> done.cases,
                               parties |-> done.parties,
                               case_parties |-> done.case_parties, counts |-> counts]
    /\ pc' = "done"
    /\ UNCHANGED <<seq, caches, counts, run_id, quarantine_path, quarantine, batch, i,
                   nruns, abortCause, hist, pre, rerunOf, pool, race, calls, nfail, nrec>>

\* the store connection is lost during the batch: the statement raises, the
\* outer handler of ingest_file re-raises, the open transaction is gone
StoreLost ==
    /\ pc \in {"running", "finishing"}
    /\ nfail < MaxStoreFailures
    /\ nfail' = nfail + 1
    /\ db' = committed
    /\ pc' = "aborted"
    /\ abortCause' = "store"
    /\ lastRun' = NoRun
    /\ UNCHANGED <<committed, seq, caches, counts, run_id, quarantine_path, quarantine,
                   batch, i, nruns, hist, pre, rerunOf, pool, race, calls, nrec>>

\* main(): the ingester is closed and a later invocation builds a new one
NewProcess ==
    /\ pc \in {"done", "aborted"}
    /\ db' = committed
    /\ caches' = EmptyCaches
    /\ counts' = ZeroCounts
    /\ run_id' = NoId
    /\ quarantine_path' = NoId
    /\ batch' = <<>>
    /\ i' = 0
    /\ pc' = "idle"
    /\ hist' = <<>>
    /\ pre' = committed
    /\ abortCause' = "none"
    /\ UNCHANGED <<committed, seq, quarantine, nruns, lastRun, rerunOf, pool, race, calls, nfail, nrec>>

Next ==
    \/ \E b \in Batches(pool) : nrec + Len(b) <= MaxRecords /\ IngestFileStart(b)
    \/ \E cause \in {"unreadable", "invalid_json"} : IngestFileFatal(cause)
    \/ HandleRecord
    \/ PartyStatementFails
    \/ HandleRecordFailedTx
    \/ FinalCommit
    \/ FinishRun
    \/ StoreLost
    \/ NewProcess

Spec == Init /\ [][Next]_vars

\* ------------------------------------------- one file of many records

\* bound: the records of the long input file
MaxLongBatch == 101

\* the decimal text of a positive number
RECURSIVE NumText(_)
NumText(k) == IF k < 10 THEN <<Digits[k + 1]>>
              ELSE Append(NumText(k \div 10), Digits[(k % 10) + 1])

\* the k-th record of the long file: its own case_number, one party; the
\* record at position bad has a date that does not resolve
LongRecord(k, bad) ==
    [BaseRecord EXCEPT !.case_number = S(NumText(k)),
                       !.filed_date = IF k = bad THEN BadDateRecord.filed_date ELSE @,
                       !.parties = S(<<"B"," ","(","d","e","f","e","n","d","a","n","t",")">>)]

\* the long input files: all records valid, or one invalid at position 2 or
\* at the commit interval
LongBatches ==
    {[k \in 1..n |-> LongRecord(k, bad)] :
        n \in {MaxLongBatch - 1, MaxLongBatch}, bad \in {0, 2, CommitInterval}}

\* one ingest_file call of a new ingester on a long file
NextLong ==
    \/ \E b \in LongBatches : nruns = 0 /\ IngestFileStart(b)
    \/ HandleRecord
    \/ PartyStatementFails
    \/ HandleRecordFailedTx
    \/ FinalCommit
    \/ FinishRun
    \/ StoreLost

SpecLong == InitWith({}) /\ [][NextLong]_vars

\* ------------------------------------------- the resolvers called directly

\* bound: the number of resolver calls of one history
MaxCalls == 3

CourtInputs == {S(<<"S",".","D",".">>), S(<<"s","d">>), S(<<" ",".">>), S(<<>>), Num}

JudgeInputs ==
    {S(<<"H","o","n","."," ","A">>), S(<<"J","u","d","g","e"," ","a">>),
     S(<<"H","o","n","."," ">>), S(<<"H","o","n",".">>), Null}

PartyInputs == {<<"A">>, <<"a"," ">>, <<" ">>, <<>>}

CaseTypeInputs == {S(<<"C","i","v","i","l">>), S(<<" ","c","i","v","i","l">>), S(<<" ">>)}

\* history entry of one call: what was asked, what came back, the session before
CallEntry(kind, raw, r) ==
    [kind |-> kind, raw |-> raw, exc |-> r.exc, id |-> r.id, before |-> Sess]

\* the session after a call, and the call appended to the history
Called(kind, raw, r) ==
    /\ Len(calls) < MaxCalls
    /\ db' = r.ss.db
    /\ seq' = r.ss.seq
    /\ caches' = r.ss.cache
    /\ calls' = Append(calls, CallEntry(kind, raw, r))
    /\ UNCHANGED <<committed, counts, run_id, quarantine_path, quarantine, batch, i, pc,
                   nruns, abortCause, hist, pre, lastRun, rerunOf, pool, race, nfail, nrec>>

ResolveCourt(v) == Called("court", v, get_or_create_court(Sess, v))

ResolveJudge(v) == Called("judge", v, get_or_create_judge(Sess, v))

ResolveParty(name) == Called("party", S(name), get_or_create_party(Sess, name))

ResolveCaseType(v) == Called("case_type", v, get_or_create_case_type(Sess, v))

\* the transaction is committed and a new ingester, with empty caches, goes on
CommitAndRestart ==
    /\ calls # <<>>
    /\ caches # EmptyCaches
    /\ committed' = db
    /\ caches' = EmptyCaches
    /\ UNCHANGED <<db, seq, counts, run_id, quarantine_path, quarantine, batch, i, pc,
                   nruns, abortCause, hist, pre, lastRun, rerunOf, pool, race, calls, nfail, nrec>>

NextResolve ==
    \/ \E v \in CourtInputs : ResolveCourt(v)
    \/ \E v \in JudgeInputs : ResolveJudge(v)
    \/ \E name \in PartyInputs : ResolveParty(name)
    \/ \E v \in CaseTypeInputs : ResolveCaseType(v)
    \/ CommitAndRestart

SpecResolve == InitWith({}) /\ [][NextResolve]_vars

\* -------------------------------- two ingesters resolving against one store

\* bound: the resolver calls of one ingester
MaxRacerCalls == 2

RaceInputs ==
    {[table |-> "courts", raw |-> <<"S",".","D",".">>], [table |-> "courts", raw |-> <<"s","d">>],
     [table |-> "parties", raw |-> <<"A">>], [table |-> "parties", raw |-> <<"a"," ">>]}

\* the rows a statement of an open transaction sees: the committed rows and,
\* over them, the rows the transaction wrote itself
Overlay(base, delta) ==
    {b \in base : ~\E d \in delta : "eid" \in DOMAIN d /\ d.eid = b.eid /\ d.raw = b.raw}
        \cup delta

\* the session of ingester p: its view of the store, the sequences, its cache
RacerSess(p) ==
    [db |-> [t \in DOMAIN committed |->
                IF t \in RaceTables THEN Overlay(committed[t], race.r[p].own[t])
                ELSE committed[t]],
     seq |-> seq, cache |-> race.r[p].cache]

\* ingester p is left with session ss at position next of the resolver
RacerAt(p, ss, next, id, missed) ==
    /\ race' = [race EXCEPT !.r[p].pc = next, !.r[p].id = id, !.r[p].cache = ss.cache,
                            !.r[p].missed = missed,
                            !.r[p].own = [t \in RaceTables |-> ss.db[t] \ committed[t]]]
    /\ seq' = ss.seq
    /\ UNCHANGED <<db, committed, caches, counts, run_id, quarantine_path, quarantine,
                   batch, i, pc, nruns, abortCause, hist, pre, lastRun, rerunOf, pool,
                   calls, nfail, nrec>>

\* get_or_create_court / get_or_create_party up to the cache check
RacerCall(p, in) ==
    /\ race.r[p].pc = "idle"
    /\ race.r[p].ncalls < MaxRacerCalls
    /\ race' = [race EXCEPT
          !.r[p].ncalls = @ + 1,
          !.r[p].table = in.table,
          !.r[p].raw = in.raw,
          !.r[p].key = IF in.table = "courts" THEN normalize_court_name(in.raw)
                       ELSE normalize_party_name(in.raw),
          !.r[p].missed = <<>>,
          !.r[p].id = IF (IF in.table = "courts" THEN normalize_court_name(in.raw)
                          ELSE normalize_party_name(in.raw)) \in DOMAIN race.r[p].cache[in.table]
                      THEN race.r[p].cache[in.table][IF in.table = "courts"
                                                     THEN normalize_court_name(in.raw)
                                                     ELSE normalize_party_name(in.raw)]
                      ELSE NoId,
          !.r[p].pc = IF (IF in.table = "courts" THEN normalize_court_name(in.raw)
                          ELSE normalize_party_name(in.raw)) \in DOMAIN race.r[p].cache[in.table]
                      THEN "observe" ELSE "select"]
    /\ UNCHANGED <<db, committed, seq, caches, counts, run_id, quarantine_path, quarantine,
                   batch, i, pc, nruns, abortCause, hist, pre, lastRun, rerunOf, pool,
                   calls, nfail, nrec>>

\* the SELECT after a cache miss; a row found fills the cache
RacerSelect(p) ==
    /\ race.r[p].pc = "select"
    /\ IF SelectId(RacerSess(p).db[race.r[p].table], "norm", race.r[p].key) # NoId
       THEN RacerAt(p, CachePut(RacerSess(p), race.r[p].table, race.r[p].key,
                                SelectId(RacerSess(p).db[race.r[p].table], "norm",
                                         race.r[p].key)),
                    "observe",
                    SelectId(RacerSess(p).db[race.r[p].table], "norm", race.r[p].key),
                    <<>>)
       ELSE RacerAt(p, RacerSess(p), "insert", NoId, <<race.r[p].table, race.r[p].key>>)

\* a variant of the INSERT that fetches the row of the key when there is one
RacerInsertOrFetch(p) ==
    /\ race.r[p].pc = "insert"
    /\ ~(\E q \in {1, 2} \ {p} : \E row \in race.r[q].own[race.r[p].table] :
              row.norm = race.r[p].key)
    /\ IF (\E row \in committed[race.r[p].table] : row.norm = race.r[p].key)
       THEN RacerAt(p, CachePut(RacerSess(p), race.r[p].table, race.r[p].key,
                                SelectId(committed[race.r[p].table], "norm", race.r[p].key)),
                    "observe",
                    SelectId(committed[race.r[p].table], "norm", race.r[p].key),
                    race.r[p].missed)
       ELSE RacerAt(p, CachePut(InsertEntity(RacerSess(p), race.r[p].table, race.r[p].raw,
                                             race.r[p].key),
                                race.r[p].table, race.r[p].key, seq[race.r[p].table] + 1),
                    "observe", seq[race.r[p].table] + 1, race.r[p].missed)

\* the INSERT after the SELECT found nothing, and the cache fill. Under a
\* unique constraint the statement waits for an uncommitted row of the key and
\* raises when a committed row has it
RacerInsert(p) ==
    /\ race.r[p].pc = "insert"
    /\ ~(race.unique /\ (\E q \in {1, 2} \ {p} : \E row \in race.r[q].own[race.r[p].table] :
              row.norm = race.r[p].key))
    /\ IF race.unique /\ (\E row \in committed[race.r[p].table] : row.norm = race.r[p].key)
       THEN RacerAt(p, RacerSess(p), "failed", NoId, race.r[p].missed)
       ELSE RacerAt(p, CachePut(InsertEntity(RacerSess(p), race.r[p].table, race.r[p].raw,
                                             race.r[p].key),
                                race.r[p].table, race.r[p].key, seq[race.r[p].table] + 1),
                    "observe", seq[race.r[p].table] + 1, race.r[p].missed)

\* the variation of the raw name is recorded and the id returned
RacerObserve(p) ==
    /\ race.r[p].pc = "observe"
    /\ RacerAt(p, IF race.r[p].table = "courts"
                  THEN record_court_variation(RacerSess(p), race.r[p].id, race.r[p].raw)
                  ELSE record_party_variation(RacerSess(p), race.r[p].id, race.r[p].raw),
               "returned", race.r[p].id, race.r[p].missed)

\* conn.commit() of ingester p: its rows become the committed ones
RacerCommit(p) ==
    /\ race.r[p].pc = "returned"
    /\ committed' = RacerSess(p).db
    /\ race' = [race EXCEPT !.r[p].pc = "idle", !.r[p].own = [t \in RaceTables |-> {}]]
    /\ UNCHANGED <<db, seq, caches, counts, run_id, quarantine_path, quarantine,
                   batch, i, pc, nruns, abortCause, hist, pre, lastRun, rerunOf, pool,
                   calls, nfail, nrec>>

NextRace ==
    \/ \E p \in {1, 2}, in \in RaceInputs : RacerCall(p, in)
    \/ \E p \in {1, 2} : RacerSelect(p)
    \/ \E p \in {1, 2} : RacerInsert(p)
    \/ \E p \in {1, 2} : RacerObserve(p)
    \/ \E p \in {1, 2} : RacerCommit(p)

SpecRace == (\E unique \in BOOLEAN : InitAll({}, unique)) /\ [][NextRace]_vars

\* ------------------------------------------------- the parsers called directly

\* bound: the calls of one history (the second repeats the first)
MaxParseCalls == 2

\* sections of a party string, each with the (name, role) pairs written in it
PartySections ==
    {[text |-> <<"A"," ","(","p","l","a","i","n","t","i","f","f",")">>,
      names |-> <<[name |-> <<"A">>, role |-> <<"p","l","a","i","n","t","i","f","f">>]>>],
     [text |-> <<"B",","," ","a"," ","(","d","e","f","e","n","d","a","n","t","s",")">>,
      names |-> <<[name |-> <<"B">>, role |-> <<"d","e","f","e","n","d","a","n","t">>], [name |-> <<"a">>, role |-> <<"d","e","f","e","n","d","a","n","t">>]>>],
     [text |-> <<"C">>,
      names |-> <<[name |-> <<"C">>, role |-> <<"o","t","h","e","r">>]>>],
     [text |-> <<" ","D"," ","(","P","l","a","i","n","t","i","f","f","s",")",","," ","E"," ","(","d","e","f","e","n","d","a","n","t",")">>,
      names |-> <<[name |-> <<"D">>, role |-> <<"p","l","a","i","n","t","i","f","f">>], [name |-> <<"E">>, role |-> <<"p","l","a","i","n","t","i","f","f">>]>>],
     [text |-> <<" ">>,
      names |-> <<>>],
     [text |-> <<"(","t","h","i","r","d","_","p","a","r","t","y",")"," ","G",",",","," ">>,
      names |-> <<[name |-> <<"G">>, role |-> <<"t","h","i","r","d","_","p","a","r","t","y">>]>>],
     [text |-> <<"H"," ","(","x",")">>,
      names |-> <<[name |-> <<"H"," ","(","x",")">>, role |-> <<"o","t","h","e","r">>]>>],
     [text |-> <<"K"," ","(","i","n","t","e","r","v","e","n","o","r",")"," ","(","p","l","a","i","n","t","i","f","f",")">>,
      names |-> <<[name |-> <<"K">>, role |-> <<"i","n","t","e","r","v","e","n","o","r">>]>>],
     [text |-> <<"J","o","h","n"," ","S","m","i","t","h"," ","(","p","l","a","i","n","t","i","f","f",")">>,
      names |-> <<[name |-> <<"J","o","h","n"," ","S","m","i","t","h">>, role |-> <<"p","l","a","i","n","t","i","f","f">>]>>],
     [text |-> <<" ","A","c","m","e"," ","C","o","r","p",","," ","J","a","n","e"," ","D","o","e"," ","(","d","e","f","e","n","d","a","n","t","s",")">>,
      names |-> <<[name |-> <<"A","c","m","e"," ","C","o","r","p">>, role |-> <<"d","e","f","e","n","d","a","n","t">>], [name |-> <<"J","a","n","e"," ","D","o","e">>, role |-> <<"d","e","f","e","n","d","a","n","t">>]>>],
     \* a parenthesis that is no role token: defendant written with the long s
     [text |-> <<"L"," ","(","d","e","f","e","n","d","a","n","t","U+017F",")">>,
      names |-> <<[name |-> <<"L"," ","(","d","e","f","e","n","d","a","n","t","U+017F",")">>, role |-> <<"o","t","h","e","r">>]>>]}

\* the inputs of parse_date and parse_parties. A numeric date text is built
\* from its month, day and year digits (mdy) and two separators; a party
\* string from one or two sections and a major separator, wants being the
\* pairs written in its sections, in order
ParseInputs ==
    {[fn |-> "parse_date",
      arg |-> S(pad \o f[1] \o <<sp[1]>> \o f[2] \o <<sp[2]>> \o f[3] \o pad),
      mdy |-> f, wants |-> <<>>] :
        pad \in {<<>>, <<" ">>},
        sp \in {"-", "/"} \X {"-", "/"},
        f \in {<<"1">>, <<"0","2">>, <<"1","2">>, <<"1","3">>, <<"2","5">>, <<"0">>}
               \X {<<"3">>, <<"1","2">>, <<"2","9">>, <<"3","1">>, <<"4","0">>, <<"0","0">>}
               \X {<<"2","0","2","4">>, <<"2","0","2","3">>, <<"0","0","0","0">>}}
    \cup {[fn |-> "parse_date", arg |-> v, mdy |-> <<>>, wants |-> <<>>] :
              v \in {Null, Num, S(<<>>), S(<<" ">>),
                     S(<<"2","0","2","4","-","1","0","-","0","3">>),
                     S(<<"O","c","t"," ","3",","," ","2","0","2","4">>),
                     S(<<"1","0","-","3","-","2","4">>),
                     S(<<"3"," ","O","c","t"," ","2","0","2","4">>)}}
    \cup {[fn |-> "parse_parties", arg |-> v, mdy |-> <<>>, wants |-> <<>>] :
              v \in {Null, S(<<>>)}}
    \cup {[fn |-> "parse_parties", arg |-> S(a.text), mdy |-> <<>>, wants |-> a.names] :
              a \in PartySections}
    \cup {[fn |-> "parse_parties", arg |-> S(a.text \o <<sep>> \o b.text), mdy |-> <<>>,
           wants |-> a.names \o b.names] :
              a \in PartySections, b \in PartySections, sep \in {";", "/"}}

\* one call of parse_date or parse_parties, its result kept in the history
ParseCall(in) ==
    /\ Len(calls) < MaxParseCalls
    /\ calls # <<>> => (calls[1].fn = in.fn /\ calls[1].arg = in.arg)
    /\ calls' = Append(calls,
                       [fn |-> in.fn, arg |-> in.arg, mdy |-> in.mdy, wants |-> in.wants,
                        out |-> IF in.fn = "parse_date" THEN parse_date(in.arg)
                                ELSE [ok |-> TRUE,
                                      parties |-> IF Truthy(in.arg)
                                                  THEN parse_parties(in.arg.v) ELSE <<>>]])
    /\ UNCHANGED <<db, committed, seq, caches, counts, run_id, quarantine_path, quarantine,
                   batch, i, pc, nruns, abortCause, hist, pre, lastRun, rerunOf, pool,
                   race, nfail, nrec>>

SpecParse == InitWith({}) /\ [][\E in \in ParseInputs : ParseCall(in)]_vars

\* ------------------------------------------------------------- properties

\* the tables a record's processing may write, the run and error tables aside
DataTables(d) ==
    [t \in {"courts", "judges", "case_types", "parties", "court_name_variations",
            "judge_name_variations", "party_name_variations", "cases", "case_parties"}
       |-> d[t]]

LastHandled == hist[Len(hist)]

\* C1: a record rejected by a validation step (a ValueError of process_docket)
\* leaves, once handled and committed, every court, judge, case-type,
\* name-variation, case and case-party table as it was before the record.
C1_RejectedRecordWritesNothing ==
    (hist # <<>> /\ LastHandled.result = "rejected" /\ LastHandled.exc = "ValueError")
        => DataTables(committed) = DataTables(pre)

\* C2: with a readable, valid-JSON batch and the store reachable no record
\* aborts the run: ingest_file raises only for unreadable input, invalid JSON
\* or a lost store connection.
C2_OnlyFatalCausesAbort ==
    pc = "aborted" => abortCause \in {"unreadable", "invalid_json", "store"}

\* C3: a completed run of the batch of the completed run before it, no store
\* statement failing in either, leaves the case, party and case-party tables as
\* that run left them and reports inserted = 0 and updated = that run's
\* inserted + updated.
C3_SecondRunIdempotent ==
    (pc = "done" /\ rerunOf.valid /\ \A k \in 1..Len(hist) : ~hist[k].party_failed)
        => /\ db.cases = rerunOf.cases
           /\ db.parties = rerunOf.parties
           /\ db.case_parties = rerunOf.case_parties
           /\ counts.inserted = 0
           /\ counts.updated = rerunOf.counts.inserted + rerunOf.counts.updated

C3_Witness ==
    /\ pc = "done"
    /\ rerunOf.valid
    /\ rerunOf.counts.inserted > 0
    /\ rerunOf.counts.updated > 0
    /\ counts.updated = 2
    /\ Len(db.case_parties) > 0

HistCount(result, existed) ==
    Cardinality({k \in 1..Len(hist) :
                    hist[k].result = result /\ (result = "accepted" => hist[k].existed = existed)})

\* one valid record, one with an invalid date, one repeating the valid case_number
ExampleBatch == <<BaseRecord, BadDateRecord, UpdateRecord>>

\* C4: a completed run counts each record once by its outcome: read is the
\* batch length, inserted the accepted records whose case_number was not in the
\* store, updated the accepted records whose case_number was, failed the
\* rejected records; the example batch on a store without its case_number gives
\* read=3, inserted=1, updated=1, failed=1.
C4_SummaryCounts ==
    pc = "done"
        => /\ counts.read = Len(batch)
           /\ counts.inserted = HistCount("accepted", FALSE)
           /\ counts.updated = HistCount("accepted", TRUE)
           /\ counts.failed = HistCount("rejected", FALSE)
           /\ counts.read = counts.inserted + counts.updated + counts.failed
           /\ (batch = ExampleBatch /\ ~hist[1].existed)
                 => counts = [read |-> 3, inserted |-> 1, updated |-> 1, failed |-> 1]

C4_Witness ==
    /\ pc = "done"
    /\ batch = ExampleBatch
    /\ ~hist[1].existed
    /\ counts = [read |-> 3, inserted |-> 1, updated |-> 1, failed |-> 1]

\* the same content, whatever the key order
SameContent(a, b) == [a EXCEPT !.ord = "sorted"] = [b EXCEPT !.ord = "sorted"]

Rejections(docket) ==
    Cardinality({k \in 1..Len(hist) :
                    hist[k].result = "rejected" /\ SameContent(hist[k].rec, docket)})

\* the times the record was written to the quarantine file: its rejections, and
\* the time the error-table write raised after the line was written
Quarantined(docket) ==
    Cardinality({k \in 1..Len(hist) :
                    /\ hist[k].result \in {"rejected", "error_write_failed"}
                    /\ SameContent(hist[k].rec, docket)})

ErrorRowsOf(docket) ==
    {r \in db.ingest_errors :
        r.run_id = run_id /\ r.record_hash = sha256_hex(canonical_json(docket))}

QuarantineLinesOf(docket) ==
    IF quarantine_path \in DOMAIN quarantine
    THEN Cardinality({k \in 1..Len(quarantine[quarantine_path]) :
                         /\ quarantine[quarantine_path][k].run_id = run_id
                         /\ SameContent(quarantine[quarantine_path][k].raw, docket)})
    ELSE 0

\* C5: within one run a record rejected n >= 1 times, in any key order, has
\* exactly one error row for (run_id, record_hash), with retry_count n - 1, and
\* n lines in the run's quarantine file (one more when the run ended in an
\* error-table write that raised after the line was written).
C5_ErrorDedup ==
    \A k \in 1..Len(hist) :
        hist[k].result = "rejected"
            => /\ Cardinality(ErrorRowsOf(hist[k].rec)) = 1
               /\ \A r \in ErrorRowsOf(hist[k].rec) :
                     r.retry_count = Rejections(hist[k].rec) - 1
               /\ QuarantineLinesOf(hist[k].rec) = Quarantined(hist[k].rec)

C5_Witness ==
    \E j, k \in 1..Len(hist) :
        /\ j < k
        /\ hist[j].result = "rejected"
        /\ hist[k].result = "rejected"
        /\ hist[j].rec # hist[k].rec
        /\ SameContent(hist[j].rec, hist[k].rec)
        /\ \E r \in ErrorRowsOf(hist[k].rec) : r.retry_count = 1
        /\ QuarantineLinesOf(hist[k].rec) = 2

\* the normalized key of a raw spelling
NormKey(kind, raw) ==
    CASE kind = "court" -> normalize_court_name(raw)
      [] kind = "judge" -> normalize_judge_name(raw)
      [] kind = "party" -> normalize_party_name(raw)
      [] OTHER -> Strip(LowerStr(raw))

EntityTable(d, kind) ==
    CASE kind = "court" -> d.courts
      [] kind = "judge" -> d.judges
      [] kind = "party" -> d.parties
      [] OTHER -> d.case_types

VariationTable(d, kind) ==
    CASE kind = "court" -> d.court_name_variations
      [] kind = "judge" -> d.judge_name_variations
      [] kind = "party" -> d.party_name_variations
      [] OTHER -> {}

\* the session after the k-th direct resolver call
AfterCall(k) == IF k < Len(calls) THEN calls[k + 1].before ELSE Sess

\* the k-th call returned an entity id
Resolved(k) == calls[k].exc = "none" /\ calls[k].id # NoId

VariationsOf(d, kind, id, raws) ==
    {r \in VariationTable(d, kind) : r.eid = id /\ r.raw \in raws}

\* the calls k and k+1 resolve two spellings with one normalized key
SameKeyPair(k) ==
    /\ calls[k].kind = calls[k + 1].kind
    /\ calls[k].kind \in {"court", "judge", "party"}
    /\ Resolved(k)
    /\ Resolved(k + 1)
    /\ NormKey(calls[k].kind, calls[k].raw.v) = NormKey(calls[k].kind, calls[k + 1].raw.v)

\* C6: two successive resolve calls of one kind with spellings of one
\* normalized key return the same id and create at most one entity row, with
\* the cache warm or cold; two different spellings leave two variation rows
\* for that id, the same spelling one row whose seen_count the second call
\* incremented.
C6_ResolveTwice ==
    \A k \in 1..(Len(calls) - 1) :
        SameKeyPair(k)
            => /\ calls[k].id = calls[k + 1].id
               /\ Cardinality(EntityTable(AfterCall(k + 1).db, calls[k].kind))
                     <= Cardinality(EntityTable(calls[k].before.db, calls[k].kind)) + 1
               /\ IF calls[k].raw # calls[k + 1].raw
                  THEN Cardinality(VariationsOf(AfterCall(k + 1).db, calls[k].kind, calls[k].id,
                                                {calls[k].raw.v, calls[k + 1].raw.v})) = 2
                  ELSE /\ Cardinality(VariationsOf(AfterCall(k + 1).db, calls[k].kind,
                                                   calls[k].id, {calls[k].raw.v})) = 1
                       /\ \E r1 \in VariationsOf(AfterCall(k).db, calls[k].kind,
                                                 calls[k].id, {calls[k].raw.v}),
                             r2 \in VariationsOf(AfterCall(k + 1).db, calls[k].kind,
                                                 calls[k].id, {calls[k].raw.v}) :
                             r2.seen = r1.seen + 1

\* two spellings of one court, the second resolved by a new ingester (cold cache)
C6_Witness ==
    /\ Len(calls) >= 2
    /\ SameKeyPair(1)
    /\ calls[1].kind = "court"
    /\ calls[1].raw # calls[2].raw
    /\ calls[2].before.cache = EmptyCaches
    /\ calls[1].id = calls[2].id

UniqueBy(rows, col) == \A a, b \in rows : a[col] = b[col] => a = b

StoreUnique(d) ==
    /\ UniqueBy(d.cases, "case_number")
    /\ \A j, k \in 1..Len(d.case_parties) : d.case_parties[j] = d.case_parties[k] => j = k
    /\ UniqueBy(d.courts, "norm")
    /\ UniqueBy(d.judges, "norm")
    /\ UniqueBy(d.parties, "norm")
    /\ UniqueBy(d.case_types, "name")

\* C7: in every state of the store, open or committed, no two case rows share
\* a case_number, no two case-party rows share (case_id, party_id, role), and no
\* two courts, judges, parties or case types share a normalized name.
C7_StoreUnique == StoreUnique(db) /\ StoreUnique(committed)

\* a case with parties ingested again by a second run
C7_Witness ==
    /\ nruns = 2
    /\ Len(db.case_parties) >= 2
    /\ \E k \in 1..Len(hist) : hist[k].result = "accepted" /\ hist[k].existed
    /\ \E r \in db.party_name_variations : r.seen >= 2

CacheInStore(cache, rows, col) ==
    \A key \in DOMAIN cache : \E r \in rows : r[col] = key /\ r.id = cache[key]

\* C8: in every state of an ingester, after an aborted and rolled-back run
\* too, every entry key -> id of the four caches is a row of the store with
\* that normalized key and that id.
C8_CachesMatchStore ==
    /\ CacheInStore(caches.courts, db.courts, "norm")
    /\ CacheInStore(caches.judges, db.judges, "norm")
    /\ CacheInStore(caches.parties, db.parties, "norm")
    /\ CacheInStore(caches.case_types, db.case_types, "name")

SuccessfulCalls(kind, id, raw) ==
    Cardinality({k \in 1..Len(calls) :
                    /\ calls[k].kind = kind
                    /\ Resolved(k)
                    /\ calls[k].id = id
                    /\ calls[k].raw.v = raw})

\* C9: every successful court, judge and party resolve call records one
\* observation of (resolved id, raw input), on a cache hit as on a miss: each
\* resolved (id, raw) has exactly one variation row, and every row's seen_count
\* is the number of successful calls made with that raw string.
C9_VariationPerCall ==
    \A kind \in {"court", "judge", "party"} :
        /\ \A r \in VariationTable(db, kind) : r.seen = SuccessfulCalls(kind, r.eid, r.raw)
        /\ \A k \in 1..Len(calls) :
              (calls[k].kind = kind /\ Resolved(k))
                  => Cardinality(VariationsOf(db, kind, calls[k].id, {calls[k].raw.v})) = 1

\* one spelling of a judge resolved twice, the second time from the cache
C9_Witness ==
    \E k \in 2..Len(calls) :
        /\ calls[k].kind = "judge"
        /\ Resolved(k)
        /\ NormKey("judge", calls[k].raw.v) \in DOMAIN calls[k].before.cache.judges
        /\ \E r \in db.judge_name_variations :
              r.eid = calls[k].id /\ r.raw = calls[k].raw.v /\ r.seen >= 2

NoEmptyName(d) ==
    /\ \A r \in d.courts \cup d.parties : r.norm # <<>>
    /\ \A r \in d.case_types : r.name # <<>>

\* C10: resolving a court, party or case-type string whose normalized key is
\* empty fails with the empty-field error and leaves tables and caches as they
\* were, and no court, party or case type with an empty normalized name is in
\* the store.
C10_EmptyKeyRejected ==
    /\ \A k \in 1..Len(calls) :
          (/\ calls[k].kind \in {"court", "party", "case_type"}
           /\ calls[k].raw.t = "str"
           /\ NormKey(calls[k].kind, calls[k].raw.v) = <<>>)
              => /\ calls[k].exc = "ValueError"
                 /\ AfterCall(k).db = calls[k].before.db
                 /\ \A t \in DOMAIN EmptyCaches :
                       DOMAIN AfterCall(k).cache[t] \subseteq DOMAIN calls[k].before.cache[t]
    /\ NoEmptyName(db)

\* the validation steps of a record, read off its fields
CaseNumberOf(d) == Get(d, "case_number", S(<<>>))

HasCaseNumber(d) ==
    d.json = "object" /\ CaseNumberOf(d).t = "str" /\ Strip(CaseNumberOf(d).v) # <<>>

\* case_number absent, empty or whitespace only
CaseNumberMissing(d) ==
    d.json = "object" /\ CaseNumberOf(d).t = "str" /\ Strip(CaseNumberOf(d).v) = <<>>

DateResolves(d) == parse_date(Get(d, "filed_date", S(<<>>))).ok

EntitiesResolve(d) ==
    /\ Get(d, "court", S(<<>>)).t = "str"
    /\ Get(d, "court", S(<<>>)).v # <<>>
    /\ Get(d, "judge", Null).t \in {"null", "str"}
    /\ Get(d, "case_type", S(Civil)).t = "str"
    /\ Get(d, "case_type", S(Civil)).v # <<>>

StatusMapped(d) ==
    Get(d, "status", S(Active)).t = "str" /\ LowerStr(Get(d, "status", S(Active)).v) \in StatusList

\* the record passes the steps before the status step and its status is a
\* text outside the list
StatusUnmapped(d) ==
    /\ HasCaseNumber(d)
    /\ DateResolves(d)
    /\ EntitiesResolve(d)
    /\ Get(d, "status", S(Active)).t = "str"
    /\ ~StatusMapped(d)

\* the record was handled with the store working
StoreWorked(h) == h.result \in {"accepted", "rejected"} /\ ~h.party_failed

\* C11: a record that passes the case_number, filed_date and entity steps and
\* whose status is outside the list is rejected with the code STATUS_UNMAPPED,
\* in the history as in its error row, whatever the text of the status.
C11_StatusUnmappedCode ==
    /\ \A k \in 1..Len(hist) :
          (StatusUnmapped(hist[k].rec) /\ StoreWorked(hist[k]))
              => hist[k].result = "rejected" /\ hist[k].code = "STATUS_UNMAPPED"
    /\ \A r \in db.ingest_errors :
          StatusUnmapped(r.record_hash) => r.error_code = "STATUS_UNMAPPED"

\* C12: the error code names the first failing step: a record whose
\* case_number is absent, empty or whitespace only is rejected with
\* MISSING_CASE_NUMBER whatever its other fields, and a record with a
\* case_number whose filed_date is missing or does not resolve is rejected with
\* BAD_DATE whatever the text of the date and of the later fields.
C12_FirstFailingStepCode ==
    \A k \in 1..Len(hist) :
        StoreWorked(hist[k])
            => /\ CaseNumberMissing(hist[k].rec)
                    => hist[k].result = "rejected" /\ hist[k].code = "MISSING_CASE_NUMBER"
               /\ (HasCaseNumber(hist[k].rec) /\ ~DateResolves(hist[k].rec))
                    => hist[k].result = "rejected" /\ hist[k].code = "BAD_DATE"

\* the last record was accepted with the store working, and the tables are as
\* it left them
LastAccepted ==
    /\ hist # <<>>
    /\ pc \in {"running", "finishing", "done"}
    /\ LastHandled.result = "accepted"
    /\ ~LastHandled.party_failed

\* the judge id of a record: null when the judge is absent or its key empty
JudgeIdOf(d, judge) ==
    IF Truthy(judge) /\ normalize_judge_name(judge.v) # <<>>
    THEN SelectId(d.judges, "norm", normalize_judge_name(judge.v))
    ELSE NoId

\* the case row the record alone stands for, its entity ids taken from the store d
ExpectedCase(d, rec) ==
    [id |-> NoId,
     case_number |-> Strip(CaseNumberOf(rec).v),
     court_id |-> SelectId(d.courts, "norm", normalize_court_name(Get(rec, "court", S(<<>>)).v)),
     title |-> Get(rec, "title", S(<<>>)),
     filed_date |-> <<parse_date(Get(rec, "filed_date", S(<<>>))).y,
                      parse_date(Get(rec, "filed_date", S(<<>>))).m,
                      parse_date(Get(rec, "filed_date", S(<<>>))).d>>,
     case_type_id |-> SelectId(d.case_types, "name",
                               Strip(LowerStr(Get(rec, "case_type", S(Civil)).v))),
     judge_id |-> JudgeIdOf(d, Get(rec, "judge", Null)),
     docket_text |-> Get(rec, "docket_text", S(<<>>)),
     status |-> LowerStr(Get(rec, "status", S(Active)).v)]

CasesNumbered(d, rec) == {c \in d.cases : c.case_number = Strip(CaseNumberOf(rec).v)}

\* the id the ingester holds for the key in one of its caches
HeldId(table, key) == IF key \in DOMAIN caches[table] THEN caches[table][key] ELSE NoId

\* the case row the record alone stands for, its entity ids the ones the
\* ingester holds for the record's normalized names
ExpectedCaseHeld(rec) ==
    [ExpectedCase(db, rec) EXCEPT
        !.court_id = HeldId("courts", normalize_court_name(Get(rec, "court", S(<<>>)).v)),
        !.case_type_id = HeldId("case_types", Strip(LowerStr(Get(rec, "case_type", S(Civil)).v))),
        !.judge_id = IF Truthy(Get(rec, "judge", Null))
                        /\ normalize_judge_name(Get(rec, "judge", Null).v) # <<>>
                     THEN HeldId("judges", normalize_judge_name(Get(rec, "judge", Null).v))
                     ELSE NoId]

\* C13: the case upsert is keyed by the trimmed case_number and replaces the
\* row: an accepted record reports 'inserted' when no row had its case_number
\* and 'updated' otherwise, the one row of that case_number then holds the
\* values of the new record alone (defaults for absent fields; the entity ids
\* the ingester holds for the record's names, which are the store's ids while
\* the caches match the store) under the id it had, and the number of case
\* rows grows by one on 'inserted' only.
C13_UpsertFullReplace ==
    LastAccepted
        => /\ LastHandled.action = IF CasesNumbered(pre, LastHandled.rec) = {}
                                   THEN "inserted" ELSE "updated"
           /\ Cardinality(CasesNumbered(db, LastHandled.rec)) = 1
           /\ \A c \in CasesNumbered(db, LastHandled.rec) :
                 /\ [c EXCEPT !.id = NoId] = ExpectedCaseHeld(LastHandled.rec)
                 /\ C8_CachesMatchStore
                       => [c EXCEPT !.id = NoId] = ExpectedCase(db, LastHandled.rec)
                 /\ \A old \in CasesNumbered(pre, LastHandled.rec) : old.id = c.id
           /\ Cardinality(db.cases) = Cardinality(pre.cases)
                 + (IF LastHandled.action = "inserted" THEN 1 ELSE 0)
           /\ \A c \in pre.cases :
                 c \notin CasesNumbered(pre, LastHandled.rec) => c \in db.cases

\* a row replaced by a record with another title, status and judge spelling
C13_Witness ==
    /\ LastAccepted
    /\ C8_CachesMatchStore
    /\ LastHandled.action = "updated"
    /\ \E old \in CasesNumbered(pre, LastHandled.rec), c \in CasesNumbered(db, LastHandled.rec) :
          old.title # c.title /\ old.status # c.status

\* the rows of the current run in the tables d
RunRows(d) == {r \in d.ingest_runs : r.run_id = run_id}

TotalsOf(r) ==
    [read |-> r.total_read, inserted |-> r.total_inserted,
     updated |-> r.total_updated, failed |-> r.total_failed]

RunRowState ==
    /\ pc \in {"running", "finishing"}
          => /\ Cardinality(RunRows(committed)) = 1
             /\ \A r \in RunRows(committed) : ~r.finished
    /\ pc = "done"
          => /\ Cardinality(RunRows(committed)) = 1
             /\ \A r \in RunRows(committed) : r.finished /\ TotalsOf(r) = counts

\* the run row is stamped in a step that starts after the final commit, with
\* no record write uncommitted
StampedAfterFinalCommit ==
    ((\E r \in RunRows(db)' : r.finished) /\ ~(\E r \in RunRows(db) : r.finished))
        => pc = "finishing" /\ committed = db /\ i = Len(batch)

\* C14: while a run is under way its run row is committed with finished_at
\* unset; once the run completed the row is stamped and its totals are the
\* counters of the summary; the stamp is set after the final commit of the
\* record writes.
C14_RunRowLifecycle == []RunRowState /\ [][StampedAfterFinalCommit]_vars

C14_Witness ==
    /\ pc = "done"
    /\ counts.inserted > 0
    /\ counts.failed > 0
    /\ \E r \in RunRows(committed) : r.finished /\ TotalsOf(r) = counts

\* the run row written last
NewestRunRows(d) == {r \in d.ingest_runs : \A q \in d.ingest_runs : q.run_id <= r.run_id}

\* C15: after ingest_file raised for a fatal condition (unreadable input,
\* invalid JSON, store failure during the batch) the store holds a run row for
\* that invocation, one row per invocation made, with finished_at unset.
C15_AbortLeavesUnfinishedRunRow ==
    (pc = "aborted" /\ abortCause \in {"unreadable", "invalid_json", "store"})
        => /\ Cardinality(committed.ingest_runs) = nruns
           /\ NewestRunRows(committed) # {}
           /\ \A r \in NewestRunRows(committed) : ~r.finished

\* the lines of the run's quarantine file
RunQuarantine ==
    IF quarantine_path \in DOMAIN quarantine THEN quarantine[quarantine_path] ELSE <<>>

\* the last line of the run's quarantine file is the line of the record handled last
LastLineIsOf(h) ==
    /\ RunQuarantine # <<>>
    /\ RunQuarantine[Len(RunQuarantine)].run_id = run_id
    /\ RunQuarantine[Len(RunQuarantine)].raw = h.rec
    /\ RunQuarantine[Len(RunQuarantine)].error_code = h.code

\* the error-table write of the record handled last raised and the open
\* transaction was rolled back
ErrorWriteRaised ==
    /\ hist # <<>>
    /\ LastHandled.result = "error_write_failed"
    /\ pc = "aborted"
    /\ db = committed

\* no step removes or alters a line of a quarantine file
QuarantineOnlyGrows ==
    \A p \in DOMAIN quarantine :
        /\ p \in DOMAIN quarantine'
        /\ Len(quarantine[p]) <= Len(quarantine'[p])
        /\ SubSeq(quarantine'[p], 1, Len(quarantine[p])) = quarantine[p]

\* C16: the quarantine line of a rejected record is written before the
\* error-table write and does not depend on it: when record_error raised (the
\* transaction had failed) and the transaction was rolled back, the run's
\* quarantine file ends with the line of that record, as it does after a
\* rejection whose error row was written; no later step removes a line.
C16_QuarantineSurvivesErrorWrite ==
    /\ [](ErrorWriteRaised => LastLineIsOf(LastHandled))
    /\ []((hist # <<>> /\ LastHandled.result = "rejected" /\ pc # "idle")
              => LastLineIsOf(LastHandled))
    /\ [][QuarantineOnlyGrows]_vars

C16_Witness ==
    /\ ErrorWriteRaised
    /\ LastLineIsOf(LastHandled)
    /\ ErrorRowsOf(LastHandled.rec) = {}

\* a step of the record loop that handles the record at 1-based position i + 1
HandlesRecord == pc = "running" /\ i < Len(batch) /\ i' = i + 1

\* C17: the record loop commits record writes only after a record whose
\* 1-based position is a multiple of the commit interval (and once at the end
\* of the batch): a step that handles a record at any other position leaves
\* the committed record tables as they were.
C17_CommitOnlyAtInterval ==
    [][(HandlesRecord /\ i' % CommitInterval # 0)
          => DataTables(committed') = DataTables(committed)]_vars

\* the (name, role) pairs process_docket links for the record
PartiesOf(d) ==
    IF Get(d, "parties", S(<<>>)).t = "str"
    THEN parse_parties(Get(d, "parties", S(<<>>)).v) ELSE <<>>

\* the party string is absent, null, empty or parses to no names
NoPartyNames(d) == Get(d, "parties", S(<<>>)).t # "num" /\ PartiesOf(d) = <<>>

\* the record passes every validation step of process_docket
PassesValidation(d) ==
    HasCaseNumber(d) /\ DateResolves(d) /\ EntitiesResolve(d) /\ StatusMapped(d)

\* the record handled last, with the run going on or completed
LastInRun == hist # <<>> /\ pc \in {"running", "finishing", "done"}

\* C18: a record that passes validation and whose party string is absent,
\* empty or parses to no names is accepted: it is counted inserted or updated,
\* its case row is in the store, and handling it adds no case_parties row, no
\* error row and no quarantine line.
C18_NoPartiesAccepted ==
    (LastInRun /\ PassesValidation(LastHandled.rec) /\ NoPartyNames(LastHandled.rec))
        => /\ LastHandled.result = "accepted"
           /\ LastHandled.action \in {"inserted", "updated"}
           /\ HistCount("accepted", TRUE) + HistCount("accepted", FALSE)
                 = counts.inserted + counts.updated
           /\ Cardinality(CasesNumbered(db, LastHandled.rec)) = 1
           /\ db.case_parties = pre.case_parties
           /\ db.ingest_errors = pre.ingest_errors
           /\ QuarantineLinesOf(LastHandled.rec) = 0

C18_Witness ==
    /\ LastInRun
    /\ LastHandled.rec = SeparatorPartiesRecord
    /\ LastHandled.action = "updated"
    /\ Len(db.case_parties) > 0
    /\ db.case_parties = pre.case_parties
    /\ QuarantineLinesOf(LastHandled.rec) = 0

\* C19: when a party statement of a valid record failed, the record is
\* accepted with its case row in the store, the transaction stays usable, and
\* the record after it is handled as a record (accepted or rejected), the run
\* going on.
C19_PartyFailureNonFatal ==
    /\ (LastInRun /\ LastHandled.party_failed)
          => /\ LastHandled.result = "accepted"
             /\ Cardinality(CasesNumbered(db, LastHandled.rec)) = 1
             /\ ~db.failed
    /\ \A k \in 1..Len(hist) :
          (k > 1 /\ hist[k - 1].party_failed) => hist[k].result \in {"accepted", "rejected"}

\* the case_parties rows that link the record's case to the party of that
\* normalized name in that role
LinksOf(d, rec, norm, role) ==
    {k \in 1..Len(d.case_parties) :
        /\ \E c \in CasesNumbered(d, rec) : d.case_parties[k].case_id = c.id
        /\ \E p \in d.parties : p.norm = norm /\ d.case_parties[k].party_id = p.id
        /\ d.case_parties[k].role = role}

\* the same rows, the party taken by the id the ingester holds for the name
LinksHeld(rec, norm, role) ==
    {k \in 1..Len(db.case_parties) :
        /\ \E c \in CasesNumbered(db, rec) : db.case_parties[k].case_id = c.id
        /\ db.case_parties[k].party_id = HeldId("parties", norm)
        /\ db.case_parties[k].role = role}

\* every (name, role) pair of ps has one case_parties row for the record's case
EachLinkedOnce(rec, ps) ==
    \A n \in 1..Len(ps) :
        /\ Cardinality(LinksHeld(rec, normalize_party_name(ps[n].name), ps[n].role)) = 1
        /\ C8_CachesMatchStore
              => Cardinality(LinksOf(db, rec, normalize_party_name(ps[n].name),
                                     ps[n].role)) = 1

\* C20: linking is idempotent per (case, party, role): after a valid record
\* was handled, every (name, role) pair of its party string, occurring once or
\* several times in it and linked or not by an earlier ingestion of the
\* case_number, has exactly one case_parties row (the party being the one the
\* ingester holds for the name, which is the store's party of that normalized
\* name while the caches match the store); the record is accepted and no
\* error row or quarantine line is written for it.
C20_LinkOncePerRole ==
    (LastInRun /\ ~LastHandled.party_failed
       /\ PassesValidation(LastHandled.rec)
       /\ Get(LastHandled.rec, "parties", S(<<>>)).t # "num")
        => /\ LastHandled.result = "accepted"
           /\ EachLinkedOnce(LastHandled.rec, PartiesOf(LastHandled.rec))
           /\ db.ingest_errors = pre.ingest_errors
           /\ QuarantineLinesOf(LastHandled.rec) = 0

\* the pair occurs twice in the party string and was linked by an earlier
\* ingestion of the case_number
C20_Witness ==
    /\ LastInRun
    /\ LastHandled.rec = DupPartiesRecord
    /\ LastHandled.result = "accepted"
    /\ Len(PartiesOf(DupPartiesRecord)) = 2
    /\ PartiesOf(DupPartiesRecord)[1] = PartiesOf(DupPartiesRecord)[2]
    /\ LinksOf(pre, DupPartiesRecord,
               normalize_party_name(PartiesOf(DupPartiesRecord)[1].name),
               PartiesOf(DupPartiesRecord)[1].role) # {}
    /\ Cardinality(LinksOf(db, DupPartiesRecord,
                           normalize_party_name(PartiesOf(DupPartiesRecord)[1].name),
                           PartiesOf(DupPartiesRecord)[1].role)) = 1

\* the rows of a table, committed or written by either ingester
RaceRows(t) == committed[t] \cup race.r[1].own[t] \cup race.r[2].own[t]

\* both ingesters missed their cache and the store lookup for one new key and
\* both went through the INSERT
BothInserted ==
    /\ race.r[1].missed # <<>>
    /\ race.r[1].missed = race.r[2].missed
    /\ \A p \in {1, 2} : race.r[p].pc \in {"observe", "returned", "idle", "failed"}

\* two entity rows have one normalized key
RaceDuplicate == \E t \in {"courts", "parties"} : ~UniqueBy(RaceRows(t), "norm")

\* C21: check-then-insert is racy under two writers and safe under one: when
\* two ingesters, each with its own cache, both missed the cache and the store
\* lookup for the same new key and both ran the INSERT, the store has two rows
\* of that key or the INSERT of exactly one ingester failed on the unique
\* constraint; as long as only one ingester has made calls there is no
\* duplicate row and no failed INSERT.
C21_CheckThenInsertRace ==
    /\ BothInserted
          => \/ Cardinality({row \in RaceRows(race.r[1].missed[1]) :
                                row.norm = race.r[1].missed[2]}) = 2
             \/ Cardinality({p \in {1, 2} : race.r[p].pc = "failed"}) = 1
    /\ (\E p \in {1, 2} : race.r[p].ncalls = 0)
          => ~RaceDuplicate /\ \A p \in {1, 2} : race.r[p].pc # "failed"

\* the race ran: both missed, both inserted, both committed
C21_Witness ==
    /\ BothInserted
    /\ \E t \in {"courts", "parties"} : ~UniqueBy(committed[t], "norm")
    /\ race.r[1].id # race.r[2].id

\* the judge input is absent, empty or only an honorific token, in any letter
\* case, with or without whitespace around it
HonorificOnly(v) ==
    \/ v.t \in {"absent", "null"}
    \/ /\ v.t = "str"
       /\ Strip(LowerStr(v.v)) \in {<<>>, <<"h","o","n">>, <<"h","o","n",".">>,
                                    <<"j","u","d","g","e">>,
                                    <<"j","u","s","t","i","c","e">>}

\* C22: for a judge input that is absent, empty or only an honorific token the
\* key is empty and get_or_create_judge returns no judge: no judge row, cache
\* entry or name variation is created.
C22_HonorificOnlyNoJudge ==
    \A k \in 1..Len(calls) :
        (calls[k].kind = "judge" /\ HonorificOnly(calls[k].raw))
            => /\ calls[k].raw.t = "str" => normalize_judge_name(calls[k].raw.v) = <<>>
               /\ calls[k].exc = "none"
               /\ calls[k].id = NoId
               /\ AfterCall(k).db = calls[k].before.db
               /\ AfterCall(k).cache.judges = calls[k].before.cache.judges

\* the Gregorian calendar has the day d of month m of year y
OnCalendar(y, m, d) ==
    /\ y >= 1
    /\ m \in 1..12
    /\ d >= 1
    /\ d <= (CASE m \in {4, 6, 9, 11} -> 30
               [] m = 2 -> (IF (y % 4 = 0 /\ y % 100 # 0) \/ y % 400 = 0 THEN 29 ELSE 28)
               [] OTHER -> 31)

\* the text handed to parse_date is absent or blank
NoDateText(v) == v.t \in {"absent", "null"} \/ (v.t = "str" /\ Strip(v.v) = <<>>)

\* C23: date resolution is month-first and first match wins: a numeric text
\* M-D-YYYY or M/D/YYYY resolves to year YYYY, month M, day D when the calendar
\* has that date and fails otherwise (never read day-first, never handed to a
\* later rule); an absent or empty value fails; a second call with the same
\* text returns what the first returned.
C23_MonthFirstDate ==
    /\ \A k \in 1..Len(calls) :
          calls[k].fn = "parse_date"
              => /\ calls[k].mdy # <<>>
                       => IF OnCalendar(NumVal(calls[k].mdy[3]), NumVal(calls[k].mdy[1]),
                                        NumVal(calls[k].mdy[2]))
                          THEN /\ calls[k].out.ok
                               /\ calls[k].out.y = NumVal(calls[k].mdy[3])
                               /\ calls[k].out.m = NumVal(calls[k].mdy[1])
                               /\ calls[k].out.d = NumVal(calls[k].mdy[2])
                          ELSE ~calls[k].out.ok /\ calls[k].out.msg.k = "date_mdy"
                 /\ NoDateText(calls[k].arg)
                       => ~calls[k].out.ok /\ calls[k].out.msg.k = "date_missing"
    /\ (Len(calls) = 2 /\ calls[1].fn = "parse_date") => calls[2].out = calls[1].out

\* 25/12/2024, a date when read day-first, resolved twice
C23_Witness ==
    /\ Len(calls) = 2
    /\ calls[2].fn = "parse_date"
    /\ calls[2].mdy = << <<"2","5">>, <<"1","2">>, <<"2","0","2","4">> >>
    /\ ~calls[2].out.ok
    /\ calls[1].out = calls[2].out

\* the roles of the data model
RoleSet ==
    {<<"p","l","a","i","n","t","i","f","f">>, <<"d","e","f","e","n","d","a","n","t">>,
     <<"t","h","i","r","d","_","p","a","r","t","y">>, <<"i","n","t","e","r","v","e","n","o","r">>,
     <<"o","t","h","e","r">>}

\* C24: party parsing gives one role per section: the string is split on ';'
\* and '/', every non-empty comma-separated name of a section gets the role
\* of the section's first role token, plural reduced to singular, or 'other'
\* without a token, in input order; the parser does not fail and returns the
\* empty sequence for empty input.
C24_OneRolePerSection ==
    \A k \in 1..Len(calls) :
        calls[k].fn = "parse_parties"
            => /\ calls[k].out.ok
               /\ calls[k].out.parties = calls[k].wants
               /\ ~Truthy(calls[k].arg) => calls[k].out.parties = <<>>
               /\ \A n \in 1..Len(calls[k].out.parties) :
                     /\ calls[k].out.parties[n].role \in RoleSet
                     /\ calls[k].out.parties[n].name # <<>>

RolesAndStatuses(d) ==
    /\ \A k \in 1..Len(d.case_parties) : d.case_parties[k].role \in RoleSet
    /\ \A c \in d.cases : c.status \in StatusList /\ c.status = LowerStr(c.status)

\* C25: in every state of the store, open transaction and committed, every
\* case_parties row has one of the five roles and every case row one of the
\* four statuses, in lower case.
C25_RolesAndStatuses == RolesAndStatuses(db) /\ RolesAndStatuses(committed)

\* the first call of the history that resolved the key of call k
FirstOfKey(k) ==
    CHOOSE j \in 1..k :
        /\ calls[j].kind = calls[k].kind
        /\ Resolved(j)
        /\ NormKey(calls[j].kind, calls[j].raw.v) = NormKey(calls[k].kind, calls[k].raw.v)
        /\ \A h \in 1..(j - 1) :
              ~(/\ calls[h].kind = calls[k].kind
                /\ Resolved(h)
                /\ NormKey(calls[h].kind, calls[h].raw.v) = NormKey(calls[k].kind, calls[k].raw.v))

\* the variation rows of before are kept by after, with at least their seen_count
VariationsKept(before, after) ==
    \A r \in before : \E q \in after : q.eid = r.eid /\ q.raw = r.raw /\ q.seen >= r.seen

\* what the call from session b to session a left alone: every entity row, and
\* every table but the kind's entity table and variation table
CallFrame(kind, b, a) ==
    /\ \A t \in {"courts", "judges", "parties", "case_types"} : b[t] \subseteq a[t]
    /\ b.cases = a.cases
    /\ b.case_parties = a.case_parties
    /\ \A other \in {"court", "judge", "party", "case_type"} \ {kind} :
          /\ EntityTable(b, other) = EntityTable(a, other)
          /\ VariationTable(b, other) = VariationTable(a, other)
    /\ VariationsKept(VariationTable(b, kind), VariationTable(a, kind))

\* C26: a court, judge or party row keeps the id, name and normalized name it
\* was created with: every resolve call, on a cache hit or a miss, leaves every
\* existing entity row as it is and, beyond creating one row for a new key,
\* only adds a variation row or increments its seen_count; the row a call
\* resolves to has the raw spelling of the first call that resolved its key.
C26_DisplayFormFixed ==
    \A k \in 1..Len(calls) :
        /\ CallFrame(calls[k].kind, calls[k].before.db, AfterCall(k).db)
        /\ (calls[k].kind \in {"court", "judge", "party"} /\ Resolved(k))
              => \E r \in EntityTable(db, calls[k].kind) :
                    /\ r.id = calls[k].id
                    /\ r.name = calls[FirstOfKey(k)].raw.v
                    /\ r.norm = NormKey(calls[k].kind, calls[k].raw.v)

\* a court created as one spelling and resolved as another, from the cache and
\* then by a new ingester
C26_Witness ==
    /\ Len(calls) = 3
    /\ SameKeyPair(1)
    /\ SameKeyPair(2)
    /\ calls[1].kind = "court"
    /\ calls[1].raw # calls[2].raw
    /\ calls[2].before.cache.courts # EmptyMap
    /\ calls[3].before.cache = EmptyCaches
    /\ \E r \in db.courts : r.id = calls[3].id /\ r.name = calls[1].raw.v
    /\ Cardinality(db.court_name_variations) = 2

\* the counters after the records handled so far, while the run goes on
CountsBalanced ==
    pc \in {"running", "finishing", "done"}
        => /\ counts.read = counts.inserted + counts.updated + counts.failed
           /\ counts.read = i
           /\ counts.read = Len(hist)
           /\ counts.inserted = HistCount("accepted", FALSE)
           /\ counts.updated = HistCount("accepted", TRUE)
           /\ counts.failed = Len(hist) - counts.inserted - counts.updated

\* ingest_file has just begun: nothing handled, the counters are zero
CountsReset ==
    /\ (pc = "running" /\ i = 0) => counts = ZeroCounts
    /\ (pc = "aborted" /\ abortCause \in {"unreadable", "invalid_json"}) => counts = ZeroCounts

\* a step of a run: no counter decreases; a step that begins ingest_file resets them
CountersStep ==
    /\ (pc = "running" /\ pc' # "idle")
          => \A c \in {"read", "inserted", "updated", "failed"} : counts'[c] >= counts[c]
    /\ (pc \in {"idle", "done"} /\ pc' \in {"running", "aborted"}) => counts' = ZeroCounts

\* C27: after each handled record and when finish_run is called, read =
\* inserted + updated + failed and read is the number of records handled; no
\* counter decreases during a run; every ingest_file call starts from zero.
C27_CounterInvariant == []CountsBalanced /\ []CountsReset /\ [][CountersStep]_vars

\* a second run on the same ingester, ended, that updated a case and rejected a
\* record, after a first run that counted something
C27_Witness ==
    /\ nruns = 2
    /\ pc = "done"
    /\ lastRun.valid
    /\ rerunOf.valid
    /\ rerunOf.counts.inserted >= 1
    /\ counts.updated >= 1
    /\ counts.failed >= 1
    /\ counts.inserted = 0

\* the rows of the store view d that the handled record h wrote last: the case
\* row with its case_number cn, or the error row of a rejected record
RecordWrites(d, h, cn) ==
    IF h.result = "accepted"
    THEN {c \in d.cases : c.case_number = cn}
    ELSE {r \in d.ingest_errors :
             r.run_id = run_id /\ r.record_hash = sha256_hex(canonical_json(h.rec))}

\* the handled records with a write in the open transaction that is not committed
Uncommitted ==
    {k \in 1..Len(hist) :
        RecordWrites(db, hist[k], Strip(CaseNumberOf(hist[k].rec).v))
            # RecordWrites(committed, hist[k], Strip(CaseNumberOf(hist[k].rec).v))}

\* the records u are the last ones handled, fewer than the commit interval, and
\* none when the last record was rejected or stood at a multiple of the interval
BoundedTail(u) ==
    /\ Cardinality(u) <= CommitInterval - 1
    /\ u = (Len(hist) - Cardinality(u) + 1)..Len(hist)
    /\ (pc = "running" /\ i > 0 /\ (CommitDue(i) \/ hist[i].result = "rejected"))
          => /\ u = {}
             /\ DataTables(db) = DataTables(committed)

\* C28: during a run the records with uncommitted writes are a suffix of the
\* handled records, shorter than the commit interval; right after a record at
\* a multiple of the interval, accepted or rejected, and right after any
\* rejected record, nothing is uncommitted.
C28_BoundedUncommittedTail == BoundedTail(Uncommitted)

\* the record at the commit interval was accepted and all records so far are
\* committed, the one before it having left a full tail
C28_Witness ==
    /\ pc = "running"
    /\ i = CommitInterval
    /\ hist[i].result = "accepted"
    /\ ~hist[i].party_failed
    /\ Cardinality(committed.cases) = CommitInterval
    /\ Cardinality(pre.cases) = CommitInterval - 1
    /\ Uncommitted = {}

IsPrefix(a, b) == Len(a) <= Len(b) /\ SubSeq(b, 1, Len(a)) = a

Rows(sq) == {sq[k] : k \in 1..Len(sq)}

\* the case_parties rows the record stands for: its case, each of its (name,
\* role) pairs, the party being the one the ingester holds for the name
RecordLinks(rec, ps) ==
    {[case_id |-> c.id, party_id |-> HeldId("parties", normalize_party_name(ps[n].name)),
      role |-> ps[n].role] : c \in CasesNumbered(db, rec), n \in 1..Len(ps)}

\* the links of every record accepted so far in the run are in the store
AcceptedLinksKept ==
    \A k \in 1..Len(hist) :
        hist[k].result = "accepted"
            => RecordLinks(hist[k].rec, PartiesOf(hist[k].rec)) \subseteq Rows(db.case_parties)

\* the state of the links after a record was handled with every statement working
LinksAfterRecord ==
    (LastInRun /\ \A k \in 1..Len(hist) : ~hist[k].party_failed)
        => /\ IsPrefix(pre.case_parties, db.case_parties)
           /\ AcceptedLinksKept
           /\ Rows(db.case_parties) =
                 Rows(pre.case_parties) \cup
                    (IF LastHandled.result = "accepted"
                     THEN RecordLinks(LastHandled.rec, PartiesOf(LastHandled.rec))
                     ELSE {})

\* a step keeps every committed link where it is, and keeps every link of the
\* open transaction unless the transaction is rolled back
LinksStep ==
    /\ IsPrefix(committed.case_parties, committed'.case_parties)
    /\ \/ IsPrefix(db.case_parties, db'.case_parties)
       \/ DataTables(db') = DataTables(committed)

\* C29: case_parties rows are only added. No step removes or changes a
\* committed row, or a row of the open transaction other than by rolling the
\* transaction back; handling an accepted record adds exactly the record's
\* links that were missing, so a record that omits an earlier (party, role)
\* leaves that link in place, and the links of the records accepted in a run
\* are all present together.
C29_LinksOnlyAdded ==
    /\ []IsPrefix(committed.case_parties, db.case_parties)
    /\ []LinksAfterRecord
    /\ [][LinksStep]_vars

\* the case is ingested again with a party string that omits two of its links
C29_Witness ==
    /\ LastInRun
    /\ LastHandled.rec = UpdateRecord
    /\ LastHandled.result = "accepted"
    /\ LastHandled.existed
    /\ Len(PartiesOf(UpdateRecord)) = 1
    /\ Len(pre.case_parties) = 3
    /\ db.case_parties = pre.case_parties
    /\ LinksOf(db, UpdateRecord, normalize_party_name(<<"A">>),
               <<"p","l","a","i","n","t","i","f","f">>) # {}

Ids(rows) == {r.id : r \in rows}

\* every reference of the store view d has its row
Referential(d) ==
    /\ \A c \in d.cases :
          /\ c.court_id \in Ids(d.courts)
          /\ c.case_type_id \in Ids(d.case_types)
          /\ c.judge_id = NoId \/ c.judge_id \in Ids(d.judges)
    /\ \A k \in 1..Len(d.case_parties) :
          /\ d.case_parties[k].case_id \in Ids(d.cases)
          /\ d.case_parties[k].party_id \in Ids(d.parties)
    /\ \A v \in d.court_name_variations : v.eid \in Ids(d.courts)
    /\ \A v \in d.judge_name_variations : v.eid \in Ids(d.judges)
    /\ \A v \in d.party_name_variations : v.eid \in Ids(d.parties)

\* C30: in every committed state of the store every case row's court_id and
\* case_type_id are ids of court and case-type rows, its judge_id is null or
\* the id of a judge row, every case_parties row refers to a case row and a
\* party row, and every name-variation row to an entity row of its kind.
C30_ReferentialIntegrity == Referential(committed)

====
